---- MODULE Spec2Model ----
(***************************************************************************)
(* A model of the pdf-to-anki-cards pipeline: the chunker, the quality /   *)
(* dedup engine, the card parser and the generation pipeline of app.py.    *)
(*                                                                         *)
(* Strings are sequences of one-character strings, so that strip, split,   *)
(* lower and the regular expressions of the source are computed on the     *)
(* characters, as the Python code computes them.                           *)
(***************************************************************************)
EXTENDS Integers, Sequences, FiniteSets, TLC

VARIABLES
    pc,                     \* position of the run that the specification models
    pages,                  \* chunker: the input page list
    max_words_per_chunk,    \* chunker: the word limit
    chunks,                 \* chunker: the result of create_chunks
    cards,                  \* dedup: the input card list
    similarity_threshold,   \* dedup: the threshold, in hundredths
    filtered,               \* dedup: filter_and_deduplicate(cards)
    refiltered,             \* dedup: filter_and_deduplicate(filtered)
    data,                   \* parser: what json.loads returned
    topic_aware,            \* parser: the topic_aware flag
    parsed,                 \* parser: the cards _parse_cards returned
    topic_mode,             \* app: the topic-mode toggle
    selected_topics,        \* app: the topics selected after the scan
    pdf_chunks,             \* app: st.session_state["pdf_chunks"]
    all_cards,              \* app: the cards collected by the generation loop
    chunk_index,            \* app: the 1-based position of the generation loop
    calls,                  \* app: the generation calls made (a history)
    exported,               \* app: the package writer called and its decks
    error,                  \* app: the error reported before st.stop()
    jac_a,                  \* jaccard: the first string
    jac_b,                  \* jaccard: the second string
    jac_out,                \* jaccard: the similarities computed from them
    py_cards,               \* robustness: card records with values of any type
    py_outcome,             \* robustness: what filter_and_deduplicate did with them
    detections,             \* ocr: the detections EasyOCR returned for a page
    lines,                  \* ocr: the visual lines _assemble_text built
    assembled,              \* ocr: the text _assemble_text returned
    raw_payload,            \* raw parser: the JSON text of a model answer
    raw_wrapping,           \* raw parser: what the model put around it
    raw_flag,               \* raw parser: the topic_aware flag
    raw_out,                \* raw parser: what _parse_cards did with both
    page_raw,               \* normalizer: the text of a page as extracted
    page_clean,             \* normalizer: what _clean_text made of it
    ocr_clean,              \* normalizer: what _clean_ocr_text made of it
    pdf,                    \* extractor: the pages of the PDF, in document order
    extracted,              \* extractor: what extract_text_from_pdf did with it
    _reader,                \* ocr: the module's global reader, 0 for None
    constructed,            \* ocr: the easyocr.Reader instances constructed so far
    call_pc,                \* ocr: where each session's ocr_pages call stands
    call_made,              \* ocr: the instance each call constructed, 0 for none
    call_log,               \* ocr: the calls returned: page_numbers empty or not, reader used
    uploaded_file,          \* session: the file in the uploader, NoFile for None
    topic_toggle,           \* session: the "Topic-based decks" toggle (topic_mode in app.py)
    api_key,                \* session: whether the sidebar holds an API key
    session_state,          \* session: st.session_state's scan keys
    topic_checked,          \* session: st.session_state's topic__<name> keys
    widgets,                \* session: the buttons and checkboxes the last run rendered
    reported,               \* session: the st.error of the last run, or the exception shown
    scan_calls,             \* session: the model calls of the last run's scan (a history)
    generation              \* session: the generation calls of the last run (a history)

chunkVars == <<pages, max_words_per_chunk, chunks>>

dedupVars == <<cards, similarity_threshold, filtered, refiltered>>

parseVars == <<data, topic_aware, parsed>>

appVars ==
    <<topic_mode, selected_topics, pdf_chunks, all_cards, chunk_index, calls,
      exported, error>>

jaccardVars == <<jac_a, jac_b, jac_out>>

robustVars == <<py_cards, py_outcome>>

ocrVars == <<detections, lines, assembled>>

rawVars == <<raw_payload, raw_wrapping, raw_flag, raw_out>>

cleanVars == <<page_raw, page_clean, ocr_clean>>

extractVars == <<pdf, extracted>>

readerVars == <<_reader, constructed, call_pc, call_made, call_log>>

sessionVars ==
    <<uploaded_file, topic_toggle, api_key, session_state, topic_checked, widgets, reported,
      scan_calls, generation>>

vars ==
    <<pc, chunkVars, dedupVars, parseVars, appVars, jaccardVars, robustVars, ocrVars, rawVars,
      cleanVars, extractVars, readerVars, sessionVars>>

(***************************************************************************)
(* Bounds of the model.                                                    *)
(***************************************************************************)
MaxPages == 4
MaxLimit == 3
MaxCards == 3
MaxItems == 2
MaxKeys == 3
MaxAppPages == 3
MaxStrLen == 3
MaxPyCards == 2
MaxDetections == 4
\* The nesting json.loads can walk before the interpreter's recursion limit
\* stops it (about a thousand levels in CPython).
LoadsDepthLimit == 3
MaxPdfPages == 3
MaxSessions == 2
MaxOcrCalls == 3
MaxBatches == 2
AppWordLimit == 2

(***************************************************************************)
(* Generic helpers.                                                        *)
(***************************************************************************)
Range(s) == {s[i] : i \in 1..Len(s)}

SetMin(S) == CHOOSE m \in S : \A n \in S : m <= n

SetMax(S) == CHOOSE m \in S : \A n \in S : m >= n

RECURSIVE Flatten(_)
Flatten(ss) == IF ss = <<>> THEN <<>> ELSE Head(ss) \o Flatten(Tail(ss))

RECURSIVE SumSeq(_)
SumSeq(s) == IF s = <<>> THEN 0 ELSE Head(s) + SumSeq(Tail(s))

\* The ascending enumeration of a finite set of integers.
RECURSIVE Ascending(_)
Ascending(S) == IF S = {} THEN <<>> ELSE <<SetMin(S)>> \o Ascending(S \ {SetMin(S)})

(***************************************************************************)
(* Python string operations on character sequences.                        *)
(***************************************************************************)
SP == <<" ">>
NL == <<"\n">>
TAB == <<"\t">>

\* str.isspace for one character of the model's alphabet.
IsSpace(ch) == ch \in {" ", "\n", "\t"}

\* str.strip(): drop leading and trailing whitespace.
Strip(s) ==
    LET solid == {i \in 1..Len(s) : ~IsSpace(s[i])}
    IN  IF solid = {} THEN <<>> ELSE SubSeq(s, SetMin(solid), SetMax(solid))

\* str.split() without arguments: the maximal runs of non-whitespace, in order.
RECURSIVE SplitFrom(_, _, _, _)
SplitFrom(s, i, cur, acc) ==
    IF i > Len(s)
    THEN IF cur = <<>> THEN acc ELSE Append(acc, cur)
    ELSE IF IsSpace(s[i])
         THEN SplitFrom(s, i + 1, <<>>, IF cur = <<>> THEN acc ELSE Append(acc, cur))
         ELSE SplitFrom(s, i + 1, Append(cur, s[i]), acc)

Split(s) == SplitFrom(s, 1, <<>>, <<>>)

\* sep.join(parts)
RECURSIVE Join(_, _)
Join(parts, sep) ==
    IF parts = <<>> THEN <<>>
    ELSE IF Len(parts) = 1 THEN Head(parts)
    ELSE Head(parts) \o sep \o Join(Tail(parts), sep)

(***************************************************************************)
(* pipeline/chunker.py                                                     *)
(***************************************************************************)
\* Mutant: the page texts are joined by a single space.
_make_chunk_SpaceJoined(ps) ==
    [pages |-> [i \in 1..Len(ps) |-> ps[i].page],
     text  |-> Join([i \in 1..Len(ps) |-> ps[i].text], SP)]

\* _make_chunk(pages)
_make_chunk(ps) ==
    [pages |-> [i \in 1..Len(ps) |-> ps[i].page],
     text  |-> Join([i \in 1..Len(ps) |-> ps[i].text], NL \o NL)]

\* The positions at which a maximal run of non-whitespace begins.
WordStarts(s) == {i \in 1..Len(s) : ~IsSpace(s[i]) /\ (i = 1 \/ IsSpace(s[i - 1]))}

\* word_count = len(page["text"].split()): str.split() returns one word for
\* every maximal run of non-whitespace.
word_count(page) == Cardinality(WordStarts(page.text))

\* Mutant: the flush comes one word early, when the limit is met exactly.
MustFlush_AtLimit(current_words, wc, limit, current_pages) ==
    current_words + wc >= limit /\ current_pages # <<>>

\* The flush test of create_chunks' loop body.
\* Mutant: the test forgets the words of the page about to be added.
MustFlush_IgnoresNewPage(current_words, wc, limit, current_pages) ==
    current_words > limit /\ current_pages # <<>>

MustFlush(current_words, wc, limit, current_pages) ==
    current_words + wc > limit /\ current_pages # <<>>

\* The for-loop of create_chunks from page i on; st is the loop's state
\* (chunks, current_pages, current_words).
RECURSIVE ChunkLoop(_, _, _, _)
ChunkLoop(ps, i, limit, st) ==
    IF i > Len(ps) THEN st
    ELSE LET wc == word_count(ps[i])
             flushed == IF MustFlush(st.current_words, wc, limit, st.current_pages)
                        THEN [chunks        |-> Append(st.chunks, _make_chunk(st.current_pages)),
                              current_pages |-> <<>>,
                              current_words |-> 0]
                        ELSE st
         IN  ChunkLoop(ps, i + 1, limit,
                       [chunks        |-> flushed.chunks,
                        current_pages |-> Append(flushed.current_pages, ps[i]),
                        current_words |-> flushed.current_words + wc])

\* Mutant: the pages still pending after the loop are never flushed.
create_chunks_NoFinalFlush(ps, limit) ==
    ChunkLoop(ps, 1, limit,
              [chunks |-> <<>>, current_pages |-> <<>>, current_words |-> 0]).chunks

\* create_chunks(pages, max_words_per_chunk)
create_chunks(ps, limit) ==
    LET st == ChunkLoop(ps, 1, limit,
                        [chunks |-> <<>>, current_pages |-> <<>>, current_words |-> 0])
    IN  IF st.current_pages # <<>>
        THEN Append(st.chunks, _make_chunk(st.current_pages))
        ELSE st.chunks

(***************************************************************************)
(* pipeline/quality.py                                                     *)
(*                                                                         *)
(* A card is a record whose fields are a subset of front, back, text and   *)
(* topic. A similarity is the exact fraction num/den; a threshold is given *)
(* in hundredths (72 stands for 0.72), so that >= is integer arithmetic.   *)
(***************************************************************************)
MinFrontLen == 12
MinBackLen == 10
MinClozeLen == 20
DefaultThreshold == 72

\* card.get(key, "")
Get(card, key) == IF key \in DOMAIN card THEN card[key] ELSE <<>>

\* str.lower() on the model's alphabet (ASCII letters).
LowerChar(ch) ==
    CASE ch = "A" -> "a" [] ch = "B" -> "b" [] ch = "C" -> "c" [] ch = "D" -> "d"
      [] ch = "E" -> "e" [] ch = "F" -> "f" [] ch = "G" -> "g" [] ch = "H" -> "h"
      [] ch = "I" -> "i" [] ch = "J" -> "j" [] ch = "K" -> "k" [] ch = "L" -> "l"
      [] ch = "M" -> "m" [] ch = "N" -> "n" [] ch = "O" -> "o" [] ch = "P" -> "p"
      [] ch = "Q" -> "q" [] ch = "R" -> "r" [] ch = "S" -> "s" [] ch = "T" -> "t"
      [] ch = "U" -> "u" [] ch = "V" -> "v" [] ch = "W" -> "w" [] ch = "X" -> "x"
      [] ch = "Y" -> "y" [] ch = "Z" -> "z" [] OTHER -> ch

Lower(s) == [i \in 1..Len(s) |-> LowerChar(s[i])]

\* Mutant: an empty token set is as similar to itself as any other set.
_jaccard_EmptyIsOne(a, b) ==
    LET wa == Range(Split(a))
        wb == Range(Split(b))
    IN  IF wa = {} /\ wb = {}
        THEN [num |-> 1, den |-> 1]
        ELSE IF wa = {} \/ wb = {}
             THEN [num |-> 0, den |-> 1]
             ELSE [num |-> Cardinality(wa \cap wb), den |-> Cardinality(wa \cup wb)]

\* Mutant: the common tokens are counted against the tokens of a alone.
_jaccard_OverFirst(a, b) ==
    LET wa == Range(Split(a))
        wb == Range(Split(b))
    IN  IF wa = {} \/ wb = {}
        THEN [num |-> 0, den |-> 1]
        ELSE [num |-> Cardinality(wa \cap wb), den |-> Cardinality(wa)]

\* _jaccard(a, b), as the fraction num/den (0/1 when a token set is empty).
_jaccard(a, b) ==
    LET wa == Range(Split(a))
        wb == Range(Split(b))
    IN  IF wa = {} \/ wb = {}
        THEN [num |-> 0, den |-> 1]
        ELSE [num |-> Cardinality(wa \cap wb), den |-> Cardinality(wa \cup wb)]

\* similarity >= threshold, the threshold in hundredths.
AtLeast(sim, threshold) == sim.num * 100 >= threshold * sim.den

\* Mutant: a strict comparison with the threshold.
IsDuplicate_Strict(key, seen, threshold) ==
    \E i \in 1..Len(seen) :
        LET sim == _jaccard(key, seen[i]) IN sim.num * 100 > threshold * sim.den

\* any(_jaccard(key, s) >= threshold for s in seen)
IsDuplicate(key, seen, threshold) ==
    \E i \in 1..Len(seen) : AtLeast(_jaccard(key, seen[i]), threshold)

\* Mutant: the minimum lengths are tested on the untrimmed fields.
BasicEntry_LenBeforeStrip(card) ==
    IF Len(Get(card, "front")) >= MinFrontLen /\ Len(Get(card, "back")) >= MinBackLen
    THEN <<[front |-> Strip(Get(card, "front")), back |-> Strip(Get(card, "back"))]>>
    ELSE <<>>

\* One pass of _dedup_basic's validation loop: what the card adds to `valid`.
BasicEntry(card) ==
    LET front == Strip(Get(card, "front"))
        back  == Strip(Get(card, "back"))
    IN  IF Len(front) >= MinFrontLen /\ Len(back) >= MinBackLen
        THEN <<[front |-> front, back |-> back]>>
        ELSE <<>>

BasicValid(cs) == Flatten([i \in 1..Len(cs) |-> BasicEntry(cs[i])])

\* key = card["front"].lower()
BasicKey(card) == Lower(card.front)

\* The dedup loop of _dedup_basic from valid[i] on; st holds seen and unique,
\* and kept, the indices of the cards kept (a history of the loop).
RECURSIVE BasicLoop(_, _, _, _)
BasicLoop(valid, i, threshold, st) ==
    IF i > Len(valid) THEN st
    ELSE LET key == BasicKey(valid[i])
         IN  BasicLoop(valid, i + 1, threshold,
                 IF ~IsDuplicate(key, st.seen, threshold)
                 THEN [seen   |-> Append(st.seen, key),
                       unique |-> Append(st.unique, valid[i]),
                       kept   |-> Append(st.kept, i)]
                 ELSE st)

\* _dedup_basic(cards, threshold)
_dedup_basic(cs, threshold) ==
    BasicLoop(BasicValid(cs), 1, threshold,
              [seen |-> <<>>, unique |-> <<>>, kept |-> <<>>]).unique

(***************************************************************************)
(* _CLOZE_RE = \{\{c\d+::(.+?)\}\}                                         *)
(***************************************************************************)
Digits == {"0", "1", "2", "3", "4", "5", "6", "7", "8", "9"}

\* The end of the greedy \d+ run that starts at i: the first non-digit index.
RECURSIVE DigitRunEnd(_, _)
DigitRunEnd(s, i) ==
    IF i <= Len(s) /\ s[i] \in Digits THEN DigitRunEnd(s, i + 1) ELSE i

\* The match of _CLOZE_RE that begins at index i, if there is one: group is
\* (.+?), the shortest non-empty run without a newline that "}}" follows, and
\* next is the index after the match.
ClozeMatchAt(s, i) ==
    LET n    == Len(s)
        j    == DigitRunEnd(s, i + 3)
        k    == j + 2
        ends == {e \in (k + 1)..(n - 1) : s[e] = "}" /\ s[e + 1] = "}"}
        e    == SetMin(ends)
    IN  IF /\ i + 2 <= n
           /\ s[i] = "{" /\ s[i + 1] = "{" /\ s[i + 2] = "c"
           /\ j > i + 3
           /\ j + 1 <= n
           /\ s[j] = ":" /\ s[j + 1] = ":"
           /\ ends # {}
           /\ \A m \in k..(e - 1) : s[m] # "\n"
        THEN [found |-> TRUE, group |-> SubSeq(s, k, e - 1), next |-> e + 2]
        ELSE [found |-> FALSE, group |-> <<>>, next |-> i + 1]

\* _CLOZE_RE.search(text) is not None
ClozeSearch(s) == \E i \in 1..Len(s) : ClozeMatchAt(s, i).found

\* _CLOZE_RE.sub(r"\1", text): every match, left to right, replaced by its group.
RECURSIVE ClozeSubFrom(_, _)
ClozeSubFrom(s, i) ==
    IF i > Len(s) THEN <<>>
    ELSE LET m == ClozeMatchAt(s, i)
         IN  IF m.found
             THEN m.group \o ClozeSubFrom(s, m.next)
             ELSE <<s[i]>> \o ClozeSubFrom(s, i + 1)

ClozeSub(s) == ClozeSubFrom(s, 1)

\* Mutant: a "{{c" anywhere passes for a blank marker.
ClozeEntry_AnyBrace(card) ==
    LET text == Strip(Get(card, "text"))
    IN  IF text = <<>>
           \/ ~(\E i \in 1..(Len(text) - 2) :
                     text[i] = "{" /\ text[i + 1] = "{" /\ text[i + 2] = "c")
           \/ Len(text) < MinClozeLen
        THEN <<>>
        ELSE <<[text |-> text]>>

\* One pass of _dedup_cloze's validation loop: what the card adds to `valid`.
ClozeEntry(card) ==
    LET text == Strip(Get(card, "text"))
    IN  IF text = <<>> \/ ~ClozeSearch(text) \/ Len(text) < MinClozeLen
        THEN <<>>
        ELSE <<[text |-> text]>>

ClozeValid(cs) == Flatten([i \in 1..Len(cs) |-> ClozeEntry(cs[i])])

\* Mutant: the key keeps the markers.
ClozeKey_KeepsMarkers(card) == Lower(card.text)

\* plain = _CLOZE_RE.sub(r"\1", card["text"]).lower()
ClozeKey(card) == Lower(ClozeSub(card.text))

\* The dedup loop of _dedup_cloze, as BasicLoop.
RECURSIVE ClozeLoop(_, _, _, _)
ClozeLoop(valid, i, threshold, st) ==
    IF i > Len(valid) THEN st
    ELSE LET plain == ClozeKey(valid[i])
         IN  ClozeLoop(valid, i + 1, threshold,
                 IF ~IsDuplicate(plain, st.seen, threshold)
                 THEN [seen   |-> Append(st.seen, plain),
                       unique |-> Append(st.unique, valid[i]),
                       kept   |-> Append(st.kept, i)]
                 ELSE st)

\* _dedup_cloze(cards, threshold)
_dedup_cloze(cs, threshold) ==
    ClozeLoop(ClozeValid(cs), 1, threshold,
              [seen |-> <<>>, unique |-> <<>>, kept |-> <<>>]).unique

\* basic = [c for c in cards if "front" in c]
BasicOf(cs) == SelectSeq(cs, LAMBDA c : "front" \in DOMAIN c)

\* cloze = [c for c in cards if "text" in c]
ClozeOf(cs) == SelectSeq(cs, LAMBDA c : "text" \in DOMAIN c)

\* Mutant: the kept cloze cards come before the kept Q/A cards.
filter_and_deduplicate_ClozeFirst(cs, threshold) ==
    _dedup_cloze(ClozeOf(cs), threshold) \o _dedup_basic(BasicOf(cs), threshold)

\* filter_and_deduplicate(cards, similarity_threshold)
filter_and_deduplicate(cs, threshold) ==
    _dedup_basic(BasicOf(cs), threshold) \o _dedup_cloze(ClozeOf(cs), threshold)

(***************************************************************************)
(* pipeline/generator.py: the card parser.                                 *)
(*                                                                         *)
(* A value that json.loads returned is a record [t, v]: a string ("str",   *)
(* v its characters), a number ("num", v the characters of its literal),   *)
(* null ("null"), a list ("list", v its items) or an object ("dict", v its *)
(* <<key, value>> pairs in the order of the document).                     *)
(***************************************************************************)
JStr(s) == [t |-> "str", v |-> s]
JNum(literal) == [t |-> "num", v |-> literal]
JNull == [t |-> "null", v |-> <<>>]
JList(items) == [t |-> "list", v |-> items]
JDict(pairs) == [t |-> "dict", v |-> pairs]

\* isinstance(x, dict), isinstance(x, list)
IsDict(x) == x.t = "dict"
IsList(x) == x.t = "list"

\* key in d
DictHas(d, key) == \E i \in 1..Len(d.v) : d.v[i][1] = key

\* d[key]
DictAt(d, key) == d.v[CHOOSE i \in 1..Len(d.v) : d.v[i][1] = key][2]

\* d.get(key, "")
DictGet(d, key) == IF DictHas(d, key) THEN DictAt(d, key) ELSE JStr(<<>>)

\* repr() of a string: single quotes, unless the string holds a single quote
\* and no double quote; the quote in use, the backslash and the control
\* characters are escaped.
ReprStr(s) ==
    LET quote  == IF (\E k \in 1..Len(s) : s[k] = "'") /\ ~(\E k \in 1..Len(s) : s[k] = "\"")
                  THEN "\"" ELSE "'"
        esc(c) == CASE c = "\\" -> <<"\\", "\\">>
                    [] c = "\n" -> <<"\\", "n">>
                    [] c = "\t" -> <<"\\", "t">>
                    [] c = "\r" -> <<"\\", "r">>
                    [] c = quote -> <<"\\", c>>
                    [] OTHER -> <<c>>
    IN  <<quote>> \o Flatten([k \in 1..Len(s) |-> esc(s[k])]) \o <<quote>>

\* repr(x). A member of an object that json.loads built carries the
\* characters of its key in third place.
RECURSIVE PyRepr(_)
PyRepr(x) ==
    CASE x.t = "str"  -> ReprStr(x.v)
      [] x.t = "num"  -> x.v
      [] x.t = "null" -> <<"N", "o", "n", "e">>
      [] x.t = "bool" -> x.v
      [] x.t = "list" ->
            <<"[">> \o Join([k \in 1..Len(x.v) |-> PyRepr(x.v[k])], <<",", " ">>) \o <<"]">>
      [] x.t = "dict" ->
            <<"{">> \o Join([k \in 1..Len(x.v) |->
                               ReprStr(x.v[k][3]) \o <<":", " ">> \o PyRepr(x.v[k][2])],
                           <<",", " ">>) \o <<"}">>

\* str(x) for the values a card field can hold.
Str(x) == IF x.t = "str" THEN x.v ELSE PyRepr(x)

\* sub in s
Contains(s, sub) ==
    \E i \in 1..(Len(s) - Len(sub) + 1) : SubSeq(s, i, i + Len(sub) - 1) = sub

W_cloze == <<"c", "l", "o", "z", "e">>

\* entry["topic"] = topic, when topic_aware and topic
WithTopic(entry, topic_aware_, topic) ==
    IF topic_aware_ /\ topic # <<>>
    THEN [k \in DOMAIN entry \cup {"topic"} |-> IF k = "topic" THEN topic ELSE entry[k]]
    ELSE entry

\* explicit_type == "cloze" or ("text" in card and "front" not in card)
ClozeBranch(card) ==
    \/ DictGet(card, "type") = JStr(W_cloze)
    \/ (DictHas(card, "text") /\ ~DictHas(card, "front"))

\* Mutant: an item of the cloze branch whose text has no marker falls through
\* to the front/back test.
ValidateEntry_FallThrough(card, topic_aware_) ==
    IF ~IsDict(card) THEN <<>>
    ELSE LET topic == IF topic_aware_ THEN Strip(Str(DictGet(card, "topic"))) ELSE <<>>
             text  == Strip(Str(DictGet(card, "text")))
         IN  IF ClozeBranch(card) /\ text # <<>> /\ Contains(text, <<"{", "{", "c">>)
             THEN <<WithTopic([text |-> text], topic_aware_, topic)>>
             ELSE IF DictHas(card, "front") /\ DictHas(card, "back")
                  THEN LET front == Strip(Str(DictAt(card, "front")))
                           back  == Strip(Str(DictAt(card, "back")))
                       IN  IF front # <<>> /\ back # <<>>
                           THEN <<WithTopic([front |-> front, back |-> back],
                                            topic_aware_, topic)>>
                           ELSE <<>>
                  ELSE <<>>

\* One pass of _validate's loop: what the item adds to `valid`.
ValidateEntry(card, topic_aware_) ==
    IF ~IsDict(card) THEN <<>>
    ELSE LET topic == IF topic_aware_ THEN Strip(Str(DictGet(card, "topic"))) ELSE <<>>
         IN  IF ClozeBranch(card)
             THEN LET text == Strip(Str(DictGet(card, "text")))
                  IN  IF text # <<>> /\ Contains(text, <<"{", "{", "c">>)
                      THEN <<WithTopic([text |-> text], topic_aware_, topic)>>
                      ELSE <<>>
             ELSE IF DictHas(card, "front") /\ DictHas(card, "back")
                  THEN LET front == Strip(Str(DictAt(card, "front")))
                           back  == Strip(Str(DictAt(card, "back")))
                       IN  IF front # <<>> /\ back # <<>>
                           THEN <<WithTopic([front |-> front, back |-> back],
                                            topic_aware_, topic)>>
                           ELSE <<>>
                  ELSE <<>>

\* _validate(cards, topic_aware)
_validate(items, topic_aware_) ==
    Flatten([i \in 1..Len(items) |-> ValidateEntry(items[i], topic_aware_)])

\* for key in ("cards", "flashcards", "karten", "anki_cards", "data", "items")
RecognizedKeys == <<"cards", "flashcards", "karten", "anki_cards", "data", "items">>

\* Mutant: the object's first list value is taken, whatever its key.
CardsFromData_DocumentOrder(d, topic_aware_) ==
    IF IsDict(d)
    THEN LET lists == {i \in 1..Len(d.v) : IsList(d.v[i][2])}
         IN  IF lists # {} THEN _validate(d.v[SetMin(lists)][2].v, topic_aware_) ELSE <<>>
    ELSE IF IsList(d) THEN _validate(d.v, topic_aware_)
    ELSE <<>>

\* _parse_cards once json.loads has returned `data`.
CardsFromData(d, topic_aware_) ==
    IF IsDict(d)
    THEN LET hits  == {r \in 1..Len(RecognizedKeys) :
                          /\ DictHas(d, RecognizedKeys[r])
                          /\ IsList(DictAt(d, RecognizedKeys[r]))}
             lists == {i \in 1..Len(d.v) : IsList(d.v[i][2])}
         IN  IF hits # {}
             THEN _validate(DictAt(d, RecognizedKeys[SetMin(hits)]).v, topic_aware_)
             ELSE IF lists # {}
                  THEN _validate(d.v[SetMin(lists)][2].v, topic_aware_)
                  ELSE <<>>
    ELSE IF IsList(d) THEN _validate(d.v, topic_aware_)
    ELSE <<>>

(***************************************************************************)
(* pipeline/generator.py: _parse_cards on the raw output string.           *)
(*                                                                         *)
(* json.loads is computed on the characters. The result of a scan is a     *)
(* record: st is "ok", "error" (JSONDecodeError) or "recursion" (the       *)
(* RecursionError of a document nested deeper than the interpreter         *)
(* allows, a limit that the model scales to LoadsDepthLimit), val the      *)
(* value and next the index after it. The alphabet has no \u escape; a     *)
(* number with a fraction or an exponent keeps its literal as its value.   *)
(***************************************************************************)
\* The key of an object as a string of the model.
RECURSIVE KeyOf(_)
KeyOf(chars) == IF chars = <<>> THEN "" ELSE Head(chars) \o KeyOf(Tail(chars))

Scanned(val, next) == [st |-> "ok", val |-> val, next |-> next]

ScanError == [st |-> "error", val |-> JNull, next |-> 0]

ScanRecursion == [st |-> "recursion", val |-> JNull, next |-> 0]

\* s[i:].startswith(word)
StartsWithAt(s, i, word) ==
    i + Len(word) - 1 <= Len(s) /\ SubSeq(s, i, i + Len(word) - 1) = word

\* json's WHITESPACE.match(s, i).end(): the first index from i on that holds
\* no JSON whitespace.
SkipWs(s, i) ==
    LET solid == {k \in i..Len(s) : s[k] \notin {" ", "\t", "\n", "\r"}}
    IN  IF solid = {} THEN (IF i > Len(s) THEN i ELSE Len(s) + 1) ELSE SetMin(solid)

\* The first index from i on that holds no digit.
SkipDigits(s, i) ==
    LET others == {k \in i..Len(s) : s[k] \notin Digits}
    IN  IF others = {} THEN (IF i > Len(s) THEN i ELSE Len(s) + 1) ELSE SetMin(others)

\* The characters a backslash may precede, and what the pair stands for.
Escapes == {"\"", "\\", "/", "n", "t"}

Unescape(ch) == CASE ch = "n" -> "\n" [] ch = "t" -> "\t" [] OTHER -> ch

\* The character at k follows an escaping backslash: the backslashes that
\* end right before k, counted back to index j, are odd in number.
Escaped(s, j, k) ==
    LET others == {p \in j..(k - 1) : s[p] # "\\"}
        run    == IF others = {} THEN k - j ELSE k - 1 - SetMax(others)
    IN  run % 2 = 1

\* py_scanstring from index j on, the opening quote read: the string ends at
\* the first quote that no backslash escapes. A control character inside the
\* string and a backslash before anything but an escape character are
\* errors (strict mode).
ScanString(s, j) ==
    LET quotes == {k \in j..Len(s) : s[k] = "\"" /\ ~Escaped(s, j, k)}
        close  == SetMin(quotes)
        marks  == [k \in 1..(close - j) |->
                     LET p == j + k - 1
                     IN  [ch   |-> IF Escaped(s, j, p) THEN Unescape(s[p]) ELSE s[p],
                          keep |-> Escaped(s, j, p) \/ s[p] # "\\",
                          ok   |-> IF Escaped(s, j, p) THEN s[p] \in Escapes
                                   ELSE s[p] \notin {"\n", "\t", "\r"}]]
        kept   == SelectSeq(marks, LAMBDA m : m.keep)
    IN  IF quotes = {} THEN ScanError
        ELSE IF \E k \in 1..Len(marks) : ~marks[k].ok THEN ScanError
        ELSE Scanned(JStr([k \in 1..Len(kept) |-> kept[k].ch]), close + 1)

\* NUMBER_RE.match(s, i): (-?(?:0|[1-9]\d*))(\.\d+)?([eE][-+]?\d+)?
\* The number is kept as the text str() gives it: an integer as its digits
\* (int("-0") is 0), a float with a fraction as the literal less the trailing
\* zeros of the fraction, one digit of it kept (magnitudes from 0.0001 to
\* 1e16). A literal with an exponent is kept as it is written.
ScanNumber(s, i) ==
    LET d    == IF i <= Len(s) /\ s[i] = "-" THEN i + 1 ELSE i
        int  == IF d <= Len(s) /\ s[d] = "0" THEN d + 1 ELSE SkipDigits(s, d)
        frac == IF int <= Len(s) /\ s[int] = "." /\ SkipDigits(s, int + 1) > int + 1
                THEN SkipDigits(s, int + 1) ELSE int
        sign == IF frac + 1 <= Len(s) /\ s[frac + 1] \in {"-", "+"} THEN frac + 2
                ELSE frac + 1
        exp  == IF frac <= Len(s) /\ s[frac] \in {"e", "E"} /\ SkipDigits(s, sign) > sign
                THEN SkipDigits(s, sign) ELSE frac
        lit  == SubSeq(s, i, exp - 1)
        sig  == {k \in (int + 1)..(frac - 1) : s[k] # "0"}
    IN  IF int = d THEN ScanError
        ELSE IF exp > frac THEN Scanned(JNum(lit), exp)
        ELSE IF frac > int
             THEN Scanned(JNum(SubSeq(s, i, IF sig = {} THEN int + 1 ELSE SetMax(sig))), exp)
        ELSE Scanned(JNum(IF lit = <<"-", "0">> THEN <<"0">> ELSE lit), exp)

JTrue == [t |-> "bool", v |-> <<"T", "r", "u", "e">>]
JFalse == [t |-> "bool", v |-> <<"F", "a", "l", "s", "e">>]

\* The constants of the scanner and the values they stand for.
Literals ==
    << <<<<"n", "u", "l", "l">>, JNull>>,
       <<<<"t", "r", "u", "e">>, JTrue>>,
       <<<<"f", "a", "l", "s", "e">>, JFalse>>,
       <<<<"N", "a", "N">>, JNum(<<"n", "a", "n">>)>>,
       <<<<"I", "n", "f", "i", "n", "i", "t", "y">>, JNum(<<"i", "n", "f">>)>>,
       <<<<"-", "I", "n", "f", "i", "n", "i", "t", "y">>, JNum(<<"-", "i", "n", "f">>)>> >>

\* d[key] = val on the members of an object: a repeated key keeps its place
\* and takes the later value. A member is its key, its value and the
\* characters of the key.
DictPut(pairs, chars, val) ==
    LET member == <<KeyOf(chars), val, chars>>
    IN  IF \E k \in 1..Len(pairs) : pairs[k][1] = member[1]
        THEN [k \in 1..Len(pairs) |-> IF pairs[k][1] = member[1] THEN member ELSE pairs[k]]
        ELSE Append(pairs, member)

RECURSIVE ScanValue(_, _, _)
RECURSIVE ScanArray(_, _, _, _)
RECURSIVE ScanObject(_, _, _, _)

\* The items of an array from index i on (a value is expected at i).
ScanArray(s, i, depth, acc) ==
    LET item == ScanValue(s, i, depth)
        k    == SkipWs(s, item.next)
    IN  IF item.st # "ok" THEN item
        ELSE IF k > Len(s) THEN ScanError
        ELSE IF s[k] = "," THEN ScanArray(s, SkipWs(s, k + 1), depth, Append(acc, item.val))
        ELSE IF s[k] = "]" THEN Scanned(JList(Append(acc, item.val)), k + 1)
        ELSE ScanError

\* The members of an object from index i on (a key is expected at i).
ScanObject(s, i, depth, acc) ==
    IF i > Len(s) \/ s[i] # "\"" THEN ScanError
    ELSE LET key == ScanString(s, i + 1)
             c   == SkipWs(s, key.next)
         IN  IF key.st # "ok" THEN key
             ELSE IF c > Len(s) \/ s[c] # ":" THEN ScanError
             ELSE LET member == ScanValue(s, SkipWs(s, c + 1), depth)
                      k      == SkipWs(s, member.next)
                      pairs  == DictPut(acc, key.val.v, member.val)
                  IN  IF member.st # "ok" THEN member
                      ELSE IF k > Len(s) THEN ScanError
                      ELSE IF s[k] = ","
                           THEN ScanObject(s, SkipWs(s, k + 1), depth, pairs)
                      ELSE IF s[k] = "}" THEN Scanned(JDict(pairs), k + 1)
                      ELSE ScanError

\* scan_once(s, i); depth is the number of arrays and objects that enclose i.
ScanValue(s, i, depth) ==
    IF i > Len(s) THEN ScanError
    ELSE IF s[i] = "\"" THEN ScanString(s, i + 1)
    ELSE IF s[i] \in {"{", "["}
         THEN IF depth + 1 > LoadsDepthLimit THEN ScanRecursion
              ELSE LET first == SkipWs(s, i + 1)
                   IN  IF s[i] = "{"
                       THEN IF first <= Len(s) /\ s[first] = "}"
                            THEN Scanned(JDict(<<>>), first + 1)
                            ELSE ScanObject(s, first, depth + 1, <<>>)
                       ELSE IF first <= Len(s) /\ s[first] = "]"
                            THEN Scanned(JList(<<>>), first + 1)
                            ELSE ScanArray(s, first, depth + 1, <<>>)
    ELSE LET hits == {n \in 1..Len(Literals) : StartsWithAt(s, i, Literals[n][1])}
         IN  IF hits # {}
             THEN Scanned(Literals[SetMin(hits)][2], i + Len(Literals[SetMin(hits)][1]))
             ELSE ScanNumber(s, i)

\* JSONDecoder.decode after raw_decode: anything but whitespace after the
\* value is an error ("Extra data").
DecodeEnd(s, scanned) ==
    IF scanned.st # "ok" THEN scanned
    ELSE IF SkipWs(s, scanned.next) <= Len(s) THEN ScanError
    ELSE scanned

\* json.loads(s): one value between optional whitespace, and nothing after it.
json_loads(s) == DecodeEnd(s, ScanValue(s, SkipWs(s, 1), 0))

\* The grave accent (U+0060), which a string of the module cannot hold: the
\* model names the character.
BACKTICK == "GRAVE"

\* re.sub(fence (?:json)?\s*, "", raw), the fence three grave accents: every
\* fence, the word json after it and the whitespace that follows are removed.
RECURSIVE FenceSub(_, _)
FenceSub(s, i) ==
    LET fences == {k \in i..Len(s) : StartsWithAt(s, k, <<BACKTICK, BACKTICK, BACKTICK>>)}
        f      == SetMin(fences)
        j      == IF StartsWithAt(s, f + 3, <<"j", "s", "o", "n">>) THEN f + 7 ELSE f + 3
        solid  == {k \in j..Len(s) : ~IsSpace(s[k])}
    IN  IF fences = {} THEN SubSeq(s, i, Len(s))
        ELSE SubSeq(s, i, f - 1)
                 \o FenceSub(s, IF solid = {} THEN Len(s) + 1 ELSE SetMin(solid))

\* str.rstrip(fence): trailing grave accents are dropped, however many.
RStripBackticks(s) ==
    LET solid == {k \in 1..Len(s) : s[k] # BACKTICK}
    IN  IF solid = {} THEN <<>> ELSE SubSeq(s, 1, SetMax(solid))

\* Mutant: the fences are left in the text.
CleanRaw_KeepsFences(raw) == Strip(raw)

\* The first statement of _parse_cards.
CleanRaw(raw) == Strip(RStripBackticks(Strip(FenceSub(raw, 1))))

\* re.search(r"\{.*\}", raw, re.DOTALL): from the first "{" to the last "}".
BraceSpan(s) ==
    LET opens  == {k \in 1..Len(s) : s[k] = "{"}
        closes == {k \in 1..Len(s) : s[k] = "}"}
    IN  IF opens # {} /\ closes # {} /\ SetMax(closes) > SetMin(opens)
        THEN [found |-> TRUE, group |-> SubSeq(s, SetMin(opens), SetMax(closes))]
        ELSE [found |-> FALSE, group |-> <<>>]

\* The except branch of _parse_cards: the brace span is loaded in place of
\* the text that json.loads refused.
LoadFallback(direct, match) ==
    IF direct.st # "error" THEN direct
    ELSE IF match.found THEN json_loads(match.group)
    ELSE ScanError

\* The try/except of _parse_cards: the data, "error" when [] is returned, or
\* "recursion" when the RecursionError leaves the function.
LoadData(cleaned) == LoadFallback(json_loads(cleaned), BraceSpan(cleaned))

\* What _parse_cards does once the data is loaded or the loading has failed.
OutcomeOf(loaded, topic_aware_) ==
    IF loaded.st = "recursion"
    THEN [raised |-> "RecursionError", data |-> JNull, value |-> <<>>]
    ELSE IF loaded.st = "error"
         THEN [raised |-> "", data |-> JNull, value |-> <<>>]
         ELSE [raised |-> "", data |-> loaded.val,
               value |-> CardsFromData(loaded.val, topic_aware_)]

\* _parse_cards(raw, topic_aware): the exception that leaves it, if any, the
\* data json.loads returned and the list returned.
ParseOutcome(raw, topic_aware_) == OutcomeOf(LoadData(CleanRaw(raw)), topic_aware_)

(***************************************************************************)
(* pipeline/quality.py on card records whose values need not be strings.   *)
(* A record is an object of the parser's value model; a value that is not  *)
(* a string has no strip(), and calling it raises AttributeError.          *)
(***************************************************************************)
\* card.get(key, "").strip() raises.
StripRaises(card, key) == DictHas(card, key) /\ DictAt(card, key).t # "str"

\* The validation loop of _dedup_basic raises on one of the cards it walks.
BasicRaises(cs) ==
    \E i \in 1..Len(cs) :
        DictHas(cs[i], "front") /\ (StripRaises(cs[i], "front") \/ StripRaises(cs[i], "back"))

\* The validation loop of _dedup_cloze raises on one of the cards it walks.
ClozeRaises(cs) ==
    \E i \in 1..Len(cs) : DictHas(cs[i], "text") /\ StripRaises(cs[i], "text")

\* The record with the fields the quality engine reads, as strings.
StrFields(card) ==
    [k \in {key \in {"front", "back", "text"} : DictHas(card, key)} |-> DictAt(card, k).v]

\* A call of filter_and_deduplicate: the exception that leaves it, if any,
\* and else the list it returns.
FilterOutcome(cs, threshold) ==
    IF BasicRaises(cs) \/ ClozeRaises(cs)
    THEN [raised |-> "AttributeError", value |-> <<>>]
    ELSE [raised |-> "",
          value  |-> filter_and_deduplicate([i \in 1..Len(cs) |-> StrFields(cs[i])],
                                            threshold)]

(***************************************************************************)
(* pipeline/ocr_extractor.py: _assemble_text.                              *)
(*                                                                         *)
(* A detection is a record of its bbox, the four corner points             *)
(* <<x, y>> of the box, and its text; coordinates are integers, so that    *)
(* |dy| < line_h * 0.6 is the integer test 10 * |dy| < 6 * line_h.         *)
(***************************************************************************)
Abs(n) == IF n < 0 THEN -n ELSE n

\* x, y and h of one detection: the top-left corner and the height of its box.
ItemOf(d) ==
    LET xs == {d.bbox[k][1] : k \in 1..Len(d.bbox)}
        ys == {d.bbox[k][2] : k \in 1..Len(d.bbox)}
    IN  [x |-> SetMin(xs), y |-> SetMin(ys), h |-> SetMax(ys) - SetMin(ys), text |-> d.text]

\* list.sort(key=lambda d: d[key]): a stable sort, equal keys keep their order.
RECURSIVE SortBy(_, _)
SortBy(seq, key) ==
    IF seq = <<>> THEN <<>>
    ELSE LET least == SetMin({seq[k][key] : k \in 1..Len(seq)})
             first == SetMin({k \in 1..Len(seq) : seq[k][key] = least})
         IN  <<seq[first]>>
                 \o SortBy([k \in 1..(Len(seq) - 1) |->
                               IF k < first THEN seq[k] ELSE seq[k + 1]], key)

\* abs(item["y"] - current[-1]["y"]) < line_h * 0.6, line_h = max(current[-1]["h"], 1)
SameLine(item, last) ==
    10 * Abs(item.y - last.y) < 6 * (IF last.h > 1 THEN last.h ELSE 1)

\* Mutant: the test is made against the first detection of the current line.
RECURSIVE LineLoop_AgainstFirst(_, _, _)
LineLoop_AgainstFirst(sorted, i, st) ==
    IF i > Len(sorted) THEN Append(st.lines, st.current)
    ELSE LineLoop_AgainstFirst(sorted, i + 1,
                  IF SameLine(sorted[i], st.current[1])
                  THEN [lines |-> st.lines, current |-> Append(st.current, sorted[i])]
                  ELSE [lines |-> Append(st.lines, st.current), current |-> <<sorted[i]>>])

\* The grouping loop from sorted[i] on; st holds lines and current.
RECURSIVE LineLoop(_, _, _)
LineLoop(sorted, i, st) ==
    IF i > Len(sorted) THEN Append(st.lines, st.current)
    ELSE LineLoop(sorted, i + 1,
                  IF SameLine(sorted[i], st.current[Len(st.current)])
                  THEN [lines |-> st.lines, current |-> Append(st.current, sorted[i])]
                  ELSE [lines |-> Append(st.lines, st.current), current |-> <<sorted[i]>>])

\* Mutant: the lines keep the order of the y sort and are not sorted by x.
AssembleLines_NoSortByX(dets) ==
    IF dets = <<>> THEN <<>>
    ELSE LET sorted == SortBy([k \in 1..Len(dets) |-> ItemOf(dets[k])], "y")
         IN  LineLoop(sorted, 2, [lines |-> <<>>, current |-> <<sorted[1]>>])

\* The visual lines of _assemble_text, each one sorted by x.
AssembleLines(dets) ==
    IF dets = <<>> THEN <<>>
    ELSE LET sorted  == SortBy([k \in 1..Len(dets) |-> ItemOf(dets[k])], "y")
             grouped == LineLoop(sorted, 2, [lines |-> <<>>, current |-> <<sorted[1]>>])
         IN  [n \in 1..Len(grouped) |-> SortBy(grouped[n], "x")]

\* "\n".join(" ".join(d["text"] for d in line) for line in lines)
JoinLines(ls) ==
    Join([n \in 1..Len(ls) |-> Join([k \in 1..Len(ls[n]) |-> ls[n][k].text], SP)], NL)

\* _assemble_text(detections)
_assemble_text(dets) == IF dets = <<>> THEN <<>> ELSE JoinLines(AssembleLines(dets))

(***************************************************************************)
(* pipeline/extractor.py _clean_text and pipeline/ocr_extractor.py          *)
(* _clean_ocr_text: five substitutions and a strip.                        *)
(***************************************************************************)
CR == "\r"

\* The elements of s whose mark is TRUE, in order.
Keep(s, mark(_)) ==
    LET tagged == [k \in 1..Len(s) |-> [ch |-> s[k], keep |-> mark(k)]]
        kept   == SelectSeq(tagged, LAMBDA m : m.keep)
    IN  [k \in 1..Len(kept) |-> kept[k].ch]

\* text.replace("\r\n", "\n").replace("\r", "\n")
NormalizeNewlines(s) ==
    LET dropped(k) == s[k] # CR \/ k = Len(s) \/ s[k + 1] # "\n"
        joined     == Keep(s, dropped)
    IN  [k \in 1..Len(joined) |-> IF joined[k] = CR THEN "\n" ELSE joined[k]]

\* The first index from i on that holds no whitespace (\s), Len(s) + 1 if none.
SkipSpace(s, i) ==
    LET solid == {k \in i..Len(s) : ~IsSpace(s[k])}
    IN  IF solid = {} THEN (IF i > Len(s) THEN i ELSE Len(s) + 1) ELSE SetMin(solid)

\* The match of ^\s*\d{1,4}\s*$ (re.MULTILINE) that begins at index p, if there
\* is one: p starts a line, one to four digits follow the whitespace, and the
\* whitespace after them runs to the end of the text or holds a newline; the
\* match then stops before the last such newline. next is the index after it.
NumberLineAt(s, p) ==
    LET q   == SkipSpace(s, p)
        r   == SkipDigits(s, q)
        t   == SkipSpace(s, r)
        nls == {u \in r..(t - 1) : s[u] = "\n"}
    IN  IF /\ (p = 1 \/ s[p - 1] = "\n")
           /\ r - q \in 1..4
           /\ (t > Len(s) \/ nls # {})
        THEN [found |-> TRUE, next |-> IF t > Len(s) THEN t ELSE SetMax(nls)]
        ELSE [found |-> FALSE, next |-> p + 1]

\* re.sub(r"^\s*\d{1,4}\s*$", "", text, flags=re.MULTILINE) from index i on.
RECURSIVE NumberLineSub(_, _)
NumberLineSub(s, i) ==
    LET starts == {p \in i..Len(s) : NumberLineAt(s, p).found}
    IN  IF starts = {} THEN SubSeq(s, i, Len(s))
        ELSE SubSeq(s, i, SetMin(starts) - 1)
                 \o NumberLineSub(s, NumberLineAt(s, SetMin(starts)).next)

\* re.sub(r"\n{3,}", "\n\n", text): of a run of newlines two are kept.
CollapseNewlines(s) ==
    LET kept(k) == ~(k > 2 /\ s[k] = "\n" /\ s[k - 1] = "\n" /\ s[k - 2] = "\n")
    IN  Keep(s, kept)

\* re.sub(r"[ \t]{2,}", " ", text): a run of two or more blanks and tabs
\* becomes one blank; a blank or a tab on its own stays.
CollapseSpaces(s) ==
    LET blank(k) == k \in 1..Len(s) /\ s[k] \in {" ", "\t"}
        kept(k)  == ~(blank(k) /\ blank(k - 1))
        first    == Keep([k \in 1..Len(s) |-> IF blank(k) /\ blank(k + 1) THEN " " ELSE s[k]],
                         kept)
    IN  first

\* [a-zäöüß]
HyphenLetters ==
    {"a", "b", "c", "d", "e", "f", "g", "h", "i", "j", "k", "l", "m", "n", "o", "p", "q",
     "r", "s", "t", "u", "v", "w", "x", "y", "z", "ä", "ö", "ü", "ß"}

\* re.sub(r"-\n([a-zäöüß])", r"\1", text)
Dehyphenate(s) ==
    LET at(k)   == k >= 1 /\ k + 2 <= Len(s) /\ s[k] = "-" /\ s[k + 1] = "\n"
                       /\ s[k + 2] \in HyphenLetters
        kept(k) == ~(at(k) \/ at(k - 1))
    IN  Keep(s, kept)

\* _clean_text(text)
_clean_text(s) ==
    Strip(Dehyphenate(CollapseSpaces(CollapseNewlines(
        NumberLineSub(NormalizeNewlines(s), 1)))))

\* _clean_ocr_text(text)
_clean_ocr_text(s) ==
    Strip(Dehyphenate(CollapseSpaces(CollapseNewlines(
        NumberLineSub(NormalizeNewlines(s), 1)))))

(***************************************************************************)
(* pipeline/extractor.py extract_text_from_pdf and pipeline/ocr_extractor.py *)
(* ocr_pages. A page of the PDF is its text layer (raw_text, empty when     *)
(* extract_text returns None or ""), whether it holds an embedded image,    *)
(* and the detections EasyOCR returns for its rendering.                    *)
(***************************************************************************)
MinPageChars == 80

\* text = _clean_text(raw_text); len(text.strip()) > 80, under `if raw_text`
LayerAccepted(page) ==
    page.raw_text # <<>> /\ Len(Strip(_clean_text(page.raw_text))) > MinPageChars

\* The loop of ocr_pages: the pages of page_numbers whose recognized text is
\* long enough, in the order of page_numbers.
OcrResults(doc, page_numbers) ==
    LET text(n) == _clean_ocr_text(_assemble_text(doc[n].detections))
        hits    == SelectSeq(page_numbers,
                             LAMBDA n : text(n) # <<>> /\ Len(Strip(text(n))) > MinPageChars)
    IN  [k \in 1..Len(hits) |-> [page |-> hits[k], text |-> text(hits[k])]]

\* ocr_pages(pdf_path, page_numbers)
ocr_pages(doc, page_numbers) ==
    IF page_numbers = <<>> THEN <<>> ELSE OcrResults(doc, page_numbers)

\* The numbers 1..n in order.
Numbers(n) == [k \in 1..n |-> k]

\* Mutant: a page whose text layer was taken is still looked at for images.
Queued_NoContinue(doc) == SelectSeq(Numbers(Len(doc)), LAMBDA n : doc[n].images)

\* scanned_page_nums after the loop over pdf.pages
Queued(doc) ==
    SelectSeq(Numbers(Len(doc)), LAMBDA n : ~LayerAccepted(doc[n]) /\ doc[n].images)

\* extract_text_from_pdf(pdf_path): the pages returned and the pages queued
\* for OCR, or the RuntimeError raised when the PDF cannot be opened.
extract_text_from_pdf(doc, opens) ==
    LET taken   == SelectSeq(Numbers(Len(doc)), LAMBDA n : LayerAccepted(doc[n]))
        layer   == [k \in 1..Len(taken) |->
                      [page |-> taken[k], text |-> _clean_text(doc[taken[k]].raw_text)]]
        scanned == Queued(doc)
        results == ocr_pages(doc, scanned)
    IN  IF ~opens
        THEN [raised |-> "RuntimeError", pages |-> <<>>, scanned_page_nums |-> <<>>]
        ELSE [raised |-> "",
              pages  |-> IF scanned # <<>> /\ results # <<>>
                         THEN SortBy(layer \o results, "page")
                         ELSE layer,
              scanned_page_nums |-> scanned]

(***************************************************************************)
(* pipeline/exporter.py: the decks that the package writers build.         *)
(***************************************************************************)
\* The notes of one deck: the basic cards, then the cloze cards.
DeckNotes(cs) == BasicOf(cs) \o ClozeOf(cs)

\* create_anki_deck(cards, deck_name)
create_anki_deck(cs, deck_name) == <<[name |-> deck_name, notes |-> DeckNotes(cs)]>>

\* create_multi_deck_package(topic_decks, base_name): one sub-deck base::topic
\* for every entry that has cards.
create_multi_deck_package(topic_decks, base_name) ==
    Flatten([k \in 1..Len(topic_decks) |->
                IF topic_decks[k].cards = <<>> THEN <<>>
                ELSE <<[name  |-> base_name \o <<":", ":">> \o topic_decks[k].topic,
                        notes |-> DeckNotes(topic_decks[k].cards)]>>])

(***************************************************************************)
(* app.py: the generation pipeline that the Generate button starts.        *)
(***************************************************************************)
\* What the generation call can raise; generate_cards_for_chunk and
\* generate_cards_for_chunk_with_topics catch every Exception.
FailureKinds == {"authentication", "rate_limit", "other"}

\* The loop index after the call for chunk idx returned: enumerate(chunks)
\* goes on to the next chunk whatever the call's result was.
NextChunkIndex_StopOnFailure(idx, result, n) == IF result = "ok" THEN idx + 1 ELSE n + 1

NextChunkIndex(idx, result, n) == idx + 1

\* t = card.get("topic", "").strip() and the bucket it selects: the selected
\* topic equal to t, else the first selected topic equal to it ignoring case.
BucketOf(card, selected) ==
    LET t       == Strip(Get(card, "topic"))
        matches == {k \in 1..Len(selected) : Lower(selected[k]) = Lower(t)}
    IN  IF t # <<>> /\ t \in Range(selected) THEN [assigned |-> TRUE, topic |-> t]
        ELSE IF matches # {} /\ selected[SetMin(matches)] # <<>>
             THEN [assigned |-> TRUE, topic |-> selected[SetMin(matches)]]
             ELSE [assigned |-> FALSE, topic |-> <<>>]

\* topic_buckets[t]
TopicBucket(cs, selected, t) ==
    SelectSeq(cs, LAMBDA c : BucketOf(c, selected) = [assigned |-> TRUE, topic |-> t])

\* topic_decks = [{"topic": t, "cards": topic_buckets[t]} for t in selected_topics
\*                if topic_buckets[t]]
TopicDecks(cs, selected) ==
    Flatten([k \in 1..Len(selected) |->
                IF TopicBucket(cs, selected, selected[k]) # <<>>
                THEN <<[topic |-> selected[k],
                        cards |-> TopicBucket(cs, selected, selected[k])]>>
                ELSE <<>>])

\* deck_name or "Anki Deck"
DeckName == <<"D", "e", "c", "k">>

NoExport == [writer |-> "none", decks |-> <<>>]

(***************************************************************************)
(* The chunker's inputs: page texts of zero to three words, with the       *)
(* whitespace that split() has to cope with.                               *)
(***************************************************************************)
PageTexts ==
    { NL,
      <<"a">>,
      <<"a">> \o SP \o SP \o <<"b">>,
      <<"a">> \o SP \o <<"b">> \o NL \o <<"c">> }

\* Page lists as the extractor returns them: ascending page numbers, some
\* pages of the document possibly left out.
PageLists ==
    UNION { { [i \in 1..Len(Ascending(S)) |->
                  [page |-> Ascending(S)[i], text |-> t[Ascending(S)[i]]]]
              : t \in [S -> PageTexts] }
            : S \in SUBSET (1..MaxPages) }

(***************************************************************************)
(* The dedup engine's inputs: cards whose fronts and texts are exact       *)
(* duplicates up to case and padding, near-duplicates at similarity 3/4    *)
(* and 3/5, too short once trimmed, or without a well-formed blank marker. *)
(***************************************************************************)
W_what == <<"w", "h", "a", "t">>
W_What == <<"W", "h", "a", "t">>
W_is == <<"i", "s">>
W_it == <<"i", "t">>
W_a == <<"a">>
W_alpha == <<"a", "l", "p", "h", "a">>
W_Alpha == <<"A", "l", "p", "h", "a">>
W_beta == <<"b", "e", "t", "a">>
W_gamma == <<"g", "a", "m", "m", "a">>
W_delta == <<"d", "e", "l", "t", "a">>
W_letter == <<"l", "e", "t", "t", "e", "r">>

\* {{cN::term}}
Marker(n, term) == <<"{", "{", "c">> \o n \o <<":", ":">> \o term \o <<"}", "}">>

F_plain == Join(<<W_What, W_is, W_alpha, W_beta>>, SP)
F_padded == SP \o SP \o Join(<<W_what, W_is, W_alpha, W_beta>>, SP) \o SP \o NL
F_gamma == Join(<<W_what, W_is, W_alpha, W_gamma>>, SP)
F_three == Join(<<W_what, W_is, W_alpha>>, SP)
F_blank == SP \o SP \o SP \o Join(<<W_what, W_is>>, SP) \o SP \o SP \o SP \o SP
B_ok == Join(<<W_it, W_is, W_a, W_letter>>, SP)
B_padded == TAB \o B_ok \o NL
T_first == Join(<<Marker(<<"1">>, W_alpha), W_is, W_what, W_beta>>, SP)
T_second == SP \o Join(<<W_Alpha, W_is, Marker(<<"2">>, W_what), W_beta>>, SP) \o NL
T_other == Join(<<Marker(<<"1", "0">>, W_alpha), W_is, W_what, W_gamma, W_delta>>, SP)
T_nomarker == Join(<<W_alpha, W_is, W_what, W_beta, W_gamma>>, SP)
T_emptyterm == Join(<<Marker(<<"1">>, <<>>), W_alpha, W_is, W_what, W_beta>>, SP)

CardPool ==
    { [front |-> F_plain, back |-> B_ok],
      [front |-> F_padded, back |-> B_padded],
      [front |-> F_gamma, back |-> B_ok],
      [front |-> F_three, back |-> B_ok],
      [front |-> F_blank, back |-> B_ok],
      [text |-> T_first],
      [text |-> T_second],
      [text |-> T_other],
      [text |-> T_nomarker],
      [text |-> T_emptyterm],
      [front |-> F_gamma, back |-> B_ok, text |-> T_first] }

\* Cloze texts that read the same once their markers are replaced by their
\* terms: another word wrapped, another marker number, or a term of blanks.
BlankTerm == [k \in 1..14 |-> " "]
T_rewrapped == Join(<<W_alpha, W_is, Marker(<<"2">>, W_what), Marker(<<"3">>, W_beta)>>, SP)
T_renumbered == Join(<<Marker(<<"1", "0">>, W_alpha), W_is, W_what, W_beta>>, SP)
T_blank1 == Marker(<<"1">>, BlankTerm)
T_blank22 == Marker(<<"2", "2">>, BlankTerm)

ClozePool ==
    { [text |-> T_first], [text |-> T_rewrapped], [text |-> T_renumbered],
      [text |-> T_second], [text |-> T_other], [text |-> T_blank1], [text |-> T_blank22] }

ClozeLists == UNION {[1..n -> ClozePool] : n \in 0..MaxCards}

\* Thresholds in hundredths: everything is a duplicate (0), the similarity of
\* two pool fronts exactly (60), the default, and exact duplicates only (100).
Thresholds == {0, 60, DefaultThreshold, 100}

CardLists == UNION {[1..n -> CardPool] : n \in 0..MaxCards}

(***************************************************************************)
(* The card parser's inputs: items of every classification case, alone, in *)
(* lists and inside wrapper objects.                                       *)
(***************************************************************************)
Topic_A == <<"A", "l", "g", "e", "b", "r", "a">>
Topic_a == <<"a", "l", "g", "e", "b", "r", "a">>
Topic_B == <<"B", "o", "t", "a", "n", "y">>

I_qa == JDict(<< <<"front", JStr(F_plain)>>, <<"back", JStr(B_ok)>> >>)
I_cloze == JDict(<< <<"text", JStr(T_first)>> >>)
I_typed_nomarker ==
    JDict(<< <<"type", JStr(W_cloze)>>, <<"text", JStr(T_nomarker)>>,
             <<"front", JStr(F_gamma)>>, <<"back", JStr(B_ok)>> >>)
I_typed_marker ==
    JDict(<< <<"type", JStr(W_cloze)>>, <<"text", JStr(T_other)>>,
             <<"front", JStr(F_gamma)>>, <<"back", JStr(B_ok)>> >>)
I_text_front ==
    JDict(<< <<"text", JStr(T_first)>>, <<"front", JStr(F_three)>>,
             <<"back", JStr(B_ok)>> >>)
I_nomarker == JDict(<< <<"text", JStr(T_nomarker)>> >>)
I_blankfront == JDict(<< <<"front", JStr(SP \o NL)>>, <<"back", JStr(B_ok)>> >>)
I_noback == JDict(<< <<"front", JStr(F_plain)>> >>)
I_string == JStr(F_plain)
I_topic ==
    JDict(<< <<"type", JStr(<<"b", "a", "s", "i", "c">>)>>, <<"front", JStr(F_padded)>>,
             <<"back", JStr(B_padded)>>, <<"topic", JStr(SP \o Topic_A \o SP)>> >>)
I_null == JDict(<< <<"front", JNull>>, <<"back", JNum(<<"7">>)>> >>)

ItemPool ==
    { I_qa, I_cloze, I_typed_nomarker, I_typed_marker, I_text_front, I_nomarker,
      I_blankfront, I_noback, I_string, I_topic, I_null }

ListData == UNION { {JList(items) : items \in [1..n -> ItemPool]} : n \in 0..MaxItems }

\* Wrapper objects: up to MaxKeys distinct keys in any order, each holding its
\* own list of cards or something that is not a list.
WrapperKeys == {"cards", "items", "karten", "notes", "meta"}

ListUnder(key) ==
    CASE key = "cards"  -> JList(<<I_qa>>)
      [] key = "items"  -> JList(<<I_cloze>>)
      [] key = "karten" -> JList(<<I_typed_marker>>)
      [] key = "notes"  -> JList(<<I_text_front>>)
      [] key = "meta"   -> JList(<<I_null>>)

NonListUnder(key) ==
    IF key = "meta" THEN JDict(<< <<"cards", JList(<<I_qa>>)>> >>) ELSE JStr(<<"x">>)

DictData ==
    UNION { { JDict([i \in 1..n |-> <<ks[i], IF isl[i] THEN ListUnder(ks[i])
                                                     ELSE NonListUnder(ks[i])>>])
              : ks \in {f \in [1..n -> WrapperKeys] :
                           \A i, j \in 1..n : i # j => f[i] # f[j]},
                isl \in [1..n -> BOOLEAN] }
            : n \in 0..MaxKeys }

ScalarData == {JStr(F_plain), JNum(<<"7">>), JNull}

(***************************************************************************)
(* The pipeline's inputs: documents of up to MaxAppPages two-word pages    *)
(* (the word limit of 2000 that app.py passes is scaled to AppWordLimit,   *)
(* so that every page becomes a chunk, and the extractor's minimum of 80   *)
(* characters a page with it), the topics selected after a scan, and what  *)
(* the generation call returns for a chunk.                                *)
(***************************************************************************)
AppPageLists ==
    { [p \in 1..n |-> [page |-> p, text |-> <<"a">> \o SP \o SP \o <<"b">>]]
      : n \in 0..MaxAppPages }

SelectedTopicLists == {<<Topic_A>>, <<Topic_B>>, <<Topic_A, Topic_B>>}

F_tiny == <<"Q", "?">>

I_cloze_tagged == JDict(<< <<"text", JStr(T_first)>>, <<"topic", JStr(Topic_a)>> >>)
I_tiny == JDict(<< <<"front", JStr(F_tiny)>>, <<"back", JStr(W_a)>> >>)

\* The near-identical fronts "What is X?" and "What's X?".
F_whatis == <<"W", "h", "a", "t", " ", "i", "s", " ", "X", "?">>
F_whats == <<"W", "h", "a", "t", "'", "s", " ", "X", "?">>

I_whatis == JDict(<< <<"front", JStr(F_whatis)>>, <<"back", JStr(B_ok)>> >>)
I_whats == JDict(<< <<"front", JStr(F_whats)>>, <<"back", JStr(B_ok)>> >>)

\* No cards; two cards tagged with topic A (one in another case); a card the
\* parser keeps and validation drops; two untagged valid cards; the pair of
\* near-identical fronts.
ResponseData ==
    { JDict(<< <<"cards", JList(<<>>)>> >>),
      JDict(<< <<"cards", JList(<<I_topic, I_cloze_tagged>>)>> >>),
      JDict(<< <<"cards", JList(<<I_tiny>>)>> >>),
      JDict(<< <<"cards", JList(<<I_qa, I_cloze>>)>> >>),
      JDict(<< <<"cards", JList(<<I_whatis, I_whats>>)>> >>) }

(***************************************************************************)
(* The inputs of _jaccard: every string of up to MaxStrLen characters over *)
(* two letters and the space, so that strings without a token, with a      *)
(* repeated token and with the same tokens in another order all occur.     *)
(***************************************************************************)
JaccardAlphabet == {"a", "b", " "}

JaccardStrings == UNION { [1..n -> JaccardAlphabet] : n \in 0..MaxStrLen }

(***************************************************************************)
(* Card records for the robustness of the quality engine: valid cards,     *)
(* cards lacking fields, and cards holding None or a number in a field.    *)
(***************************************************************************)
P_qa == JDict(<< <<"front", JStr(F_plain)>>, <<"back", JStr(B_ok)>> >>)
P_cloze == JDict(<< <<"text", JStr(T_first)>> >>)
P_noback == JDict(<< <<"front", JStr(F_plain)>> >>)
P_empty == JDict(<<>>)
P_extra == JDict(<< <<"front", JStr(F_gamma)>>, <<"back", JStr(B_ok)>>, <<"topic", JNull>> >>)
P_nonefront == JDict(<< <<"front", JNull>>, <<"back", JStr(B_ok)>> >>)
P_numback == JDict(<< <<"front", JStr(F_plain)>>, <<"back", JNum(<<"7">>)>> >>)
P_numtext == JDict(<< <<"text", JNum(<<"7">>)>> >>)
P_backonly == JDict(<< <<"back", JNull>> >>)

PyCardPool ==
    { P_qa, P_cloze, P_noback, P_empty, P_extra, P_nonefront, P_numback, P_numtext,
      P_backonly }

PyCardLists == UNION { [1..n -> PyCardPool] : n \in 0..MaxPyCards }

(***************************************************************************)
(* The assembler's inputs: the detections of a page layout, any of them    *)
(* missing and in any order. The layouts are the three detections of the   *)
(* reading-order example, a page of three columns with two rows each, and  *)
(* a page whose boxes overlap vertically (one of them without height).     *)
(***************************************************************************)
Box(x, y, w, h) == <<<<x, y>>, <<x + w, y>>, <<x + w, y + h>>, <<x, y + h>>>>

Detection(x, y, h, text) == [bbox |-> Box(x, y, 30, h), text |-> text]

D_Left == Detection(0, 0, 10, <<"L", "e", "f", "t">>)
D_Right == Detection(50, 0, 10, <<"R", "i", "g", "h", "t">>)
D_Below == Detection(0, 100, 10, <<"B", "e", "l", "o", "w">>)

ExampleLayout == {D_Left, D_Right, D_Below}

D_L1 == Detection(0, 0, 10, <<"L", "1">>)
D_L2 == Detection(0, 20, 10, <<"L", "2">>)
D_M1 == Detection(50, 0, 10, <<"M", "1">>)
D_M2 == Detection(50, 20, 10, <<"M", "2">>)
D_R1 == Detection(100, 0, 10, <<"R", "1">>)
D_R2 == Detection(100, 20, 10, <<"R", "2">>)

ColumnLayout == {D_L1, D_L2, D_M1, D_M2, D_R1, D_R2}

D_S1 == Detection(0, 0, 10, <<"S", "1">>)
D_S2 == Detection(0, 3, 10, <<"S", "2">>)
D_S3 == Detection(50, 8, 10, <<"S", "3">>)
D_S4 == Detection(20, 30, 0, <<"S", "4">>)
D_S5 == Detection(0, 30, 10, <<"t", "w", "o", " ", "w", "o", "r", "d", "s">>)

SkewedLayout == {D_S1, D_S2, D_S3, D_S4, D_S5}

\* The sequences without repetition of up to MaxDetections members of a layout.
Orderings(layout) ==
    UNION { {f \in [1..n -> layout] : \A p, q \in 1..n : p # q => f[p] # f[q]}
            : n \in 0..MaxDetections }

DetectionLists ==
    Orderings(ExampleLayout) \cup Orderings(ColumnLayout) \cup Orderings(SkewedLayout)

(***************************************************************************)
(* Model answers for _parse_cards: a payload and what is wrapped around it. *)
(***************************************************************************)
\* An object with a recognized key: one Q/A card.
R_cards ==
    <<"{", "\"", "c", "a", "r", "d", "s", "\"", ":", "[", "{", "\"", "f", "r", "o", "n",
      "t", "\"", ":", "\"", "Q", "\"", ",", "\"", "b", "a", "c", "k", "\"", ":", "\"", "A",
      "\"", "}", "]", "}">>

\* A bare list of one Q/A card.
R_list ==
    <<"[", "{", "\"", "f", "r", "o", "n", "t", "\"", ":", "\"", "Q", "\"", ",", "\"", "b",
      "a", "c", "k", "\"", ":", "\"", "A", "\"", "}", "]">>

\* A Q/A and a cloze card under a later recognized key, with whitespace.
R_mixed ==
    <<"{", "\"", "m", "e", "t", "a", "\"", ":", "1", ",", "\"", "i", "t", "e", "m", "s",
      "\"", ":", " ", "[", "{", "\"", "f", "r", "o", "n", "t", "\"", ":", "\"", "Q", "\"",
      ",", "\"", "b", "a", "c", "k", "\"", ":", "\"", "A", "\"", "}", ",", " ", "{", "\"",
      "t", "y", "p", "e", "\"", ":", "\"", "c", "l", "o", "z", "e", "\"", ",", "\"", "t",
      "e", "x", "t", "\"", ":", "\"", "{", "{", "c", "1", ":", ":", "x", "}", "}", " ",
      "y", "\"", ",", "\"", "t", "o", "p", "i", "c", "\"", ":", "\"", "T", "\"", "}", "]",
      "}">>

\* One card object, no list in it.
R_single ==
    <<"{", "\"", "f", "r", "o", "n", "t", "\"", ":", "\"", "Q", "\"", ",", "\"", "b", "a",
      "c", "k", "\"", ":", "\"", "A", "\"", "}">>

\* A number.
R_number ==
    <<"7">>

\* A string.
R_string ==
    <<"\"", "x", "\"">>

\* The constant null.
R_null ==
    <<"n", "u", "l", "l">>

\* Nothing at all.
R_empty ==
    <<>>

\* A document cut short.
R_truncated ==
    <<"{", "\"", "c", "a", "r", "d", "s", "\"", ":", "[", "{", "\"", "f", "r", "o", "n",
      "t", "\"", ":", "\"", "Q", "\"", ",", "\"", "b", "a", "c", "k", "\"", ":", "\"", "A",
      "\"", "}">>

\* No JSON at all.
R_prose ==
    <<"S", "o", "r", "r", "y", ",", " ", "n", "o", " ", "c", "a", "r", "d", "s", ".">>

\* Two documents in a row.
R_two ==
    <<"{", "\"", "a", "\"", ":", "1", "}", " ", "{", "\"", "b", "\"", ":", "2", "}">>

\* Escapes inside the strings.
R_escapes ==
    <<"{", "\"", "c", "a", "r", "d", "s", "\"", ":", "[", "{", "\"", "f", "r", "o", "n",
      "t", "\"", ":", "\"", "Q", "\\", "\"", "1", "\\", "\"", "\"", ",", "\"", "b", "a",
      "c", "k", "\"", ":", "\"", "A", "\\", "\\", "B", "\\", "n", "\"", "}", "]", "}">>

\* A fence inside a string.
R_fenced_text ==
    <<"{", "\"", "c", "a", "r", "d", "s", "\"", ":", "[", "{", "\"", "f", "r", "o", "n",
      "t", "\"", ":", "\"", "a", BACKTICK, BACKTICK, BACKTICK, "b", "\"", ",", "\"", "b",
      "a", "c", "k", "\"", ":", "\"", "A", "\"", "}", "]", "}">>

\* Fields that are not strings.
R_values ==
    <<"[", "{", "\"", "f", "r", "o", "n", "t", "\"", ":", "1", ".", "5", "0", ",", "\"",
      "b", "a", "c", "k", "\"", ":", "t", "r", "u", "e", "}", ",", "{", "\"", "f", "r",
      "o", "n", "t", "\"", ":", "n", "u", "l", "l", ",", "\"", "b", "a", "c", "k", "\"",
      ":", "-", "0", "}", "]">>

\* Fields that are containers: three levels deep.
R_nested ==
    <<"{", "\"", "c", "a", "r", "d", "s", "\"", ":", "[", "{", "\"", "f", "r", "o", "n",
      "t", "\"", ":", "{", "\"", "k", "\"", ":", "\"", "v", "\"", "}", ",", "\"", "b", "a",
      "c", "k", "\"", ":", "[", "\"", "A", "\"", "]", "}", "]", "}">>

\* Four levels of nesting.
R_deep4 ==
    <<"[", "[", "[", "[", "7", "]", "]", "]", "]">>

\* Five levels of nesting.
R_deep5 ==
    <<"{", "\"", "d", "a", "t", "a", "\"", ":", "[", "{", "\"", "f", "r", "o", "n", "t",
      "\"", ":", "[", "[", "7", "]", "]", ",", "\"", "b", "a", "c", "k", "\"", ":", "\"",
      "A", "\"", "}", "]", "}">>

\* Six opened arrays, none closed.
R_deep6 ==
    <<"[", "[", "[", "[", "[", "[">>

RawPayloads ==
    {R_cards, R_list, R_mixed, R_single, R_number, R_string, R_null, R_empty,
     R_truncated, R_prose, R_two, R_escapes, R_fenced_text, R_values, R_nested, R_deep4,
     R_deep5, R_deep6}

\* How a model wraps its answer: not at all, in a fence line before and after
\* (with or without the word json), in fences on the same line, in prose.
Wrappings == {"bare", "json_fence", "plain_fence", "inline_fence", "prose"}

FenceWrappings == {"json_fence", "plain_fence", "inline_fence"}

FENCE == <<BACKTICK, BACKTICK, BACKTICK>>

Wrap(payload, wrapping) ==
    CASE wrapping = "bare"         -> payload
      [] wrapping = "json_fence"   -> FENCE \o <<"j", "s", "o", "n", "\n">> \o payload \o <<"\n">> \o FENCE
      [] wrapping = "plain_fence"  -> FENCE \o <<"\n">> \o payload \o <<"\n">> \o FENCE
      [] wrapping = "inline_fence" -> FENCE \o <<"j", "s", "o", "n", " ">> \o payload \o FENCE
      [] wrapping = "prose"        ->
            <<"H", "e", "r", "e", ":", " ">> \o payload \o <<" ", "d", "o", "n", "e">>

(***************************************************************************)
(* The normalizers' inputs: a word split over two lines, the second part   *)
(* beginning with a letter of a-z, an umlaut, an extended Latin lowercase  *)
(* letter, a capital or a digit, between texts that the other              *)
(* substitutions work on.                                                  *)
(***************************************************************************)
ExtendedLower == {"é", "ñ", "ç", "å"}

\* Lowercase letters: str.islower() holds of each.
LowercaseSample == {"a", "z", "ä", "ß"} \cup ExtendedLower

SecondPartStarts == LowercaseSample \cup {"E", "1"}

SplitMarks == {<<"-", "\n">>, <<"-", CR, "\n">>, <<"-", " ", "\n">>, <<"\n">>}

TextsBefore == {<<>>, <<"1", "2", "\n">>, <<" ", "\t", " ", "x", " ">>, <<"a", CR, "\n">>}

TextsAfter == {<<>>, <<"\n", "\n", "\n", "7">>, <<" ", " ", ".", "\n", "\n", "\n", "e", "n", "d">>}

\* "wor" + the split + a letter + "d"
SplitWord(mark, letter) == <<"w", "o", "r">> \o mark \o <<letter, "d">>

RawTexts ==
    { before \o SplitWord(mark, letter) \o after :
        before \in TextsBefore, mark \in SplitMarks, letter \in SecondPartStarts,
        after \in TextsAfter }

(***************************************************************************)
(* The extractor's inputs: PDFs of up to MaxPdfPages pages, each page with  *)
(* a text layer that is long, short, long only before it is cleaned, or    *)
(* missing, with or without an embedded image, recognized well or badly.   *)
(***************************************************************************)
\* 85 characters in words of four letters.
LongText == [k \in 1..85 |-> IF k % 5 = 0 THEN " " ELSE "a"]

\* 100 characters that the normalizer cuts down to two.
PaddedText == [k \in 1..100 |-> IF k = 50 THEN "x" ELSE IF k = 51 THEN "y" ELSE " "]

ShortText == <<"a", "b">>

GoodScan == <<Detection(0, 20, 10, LongText), Detection(0, 0, 10, ShortText)>>

BadScan == <<Detection(0, 0, 10, ShortText)>>

PdfPage(raw_text, images, dets) ==
    [raw_text |-> raw_text, images |-> images, detections |-> dets]

PdfPageKinds ==
    { PdfPage(LongText, FALSE, <<>>),
      PdfPage(LongText, TRUE, GoodScan),
      PdfPage(ShortText, TRUE, GoodScan),
      PdfPage(<<>>, TRUE, GoodScan),
      PdfPage(<<>>, TRUE, BadScan),
      PdfPage(<<>>, FALSE, <<>>),
      PdfPage(PaddedText, FALSE, <<>>),
      PdfPage(PaddedText, TRUE, GoodScan) }

Pdfs == UNION {[1..n -> PdfPageKinds] : n \in 0..MaxPdfPages}

(***************************************************************************)
(* pipeline/scanner.py: the topics of a scan.                              *)
(***************************************************************************)
\* The default threshold of _deduplicate_topics, in hundredths.
TopicThreshold == 45

\* The loop of _deduplicate_topics from topics[i] on; st holds seen and unique.
RECURSIVE TopicLoop(_, _, _, _)
TopicLoop(topics, i, threshold, st) ==
    IF i > Len(topics) THEN st
    ELSE LET key == Lower(topics[i].name)
         IN  TopicLoop(topics, i + 1, threshold,
                       IF IsDuplicate(key, st.seen, threshold)
                       THEN st
                       ELSE [seen   |-> Append(st.seen, key),
                             unique |-> Append(st.unique, topics[i])])

\* _deduplicate_topics(topics, threshold); scanner.py's _jaccard is the same
\* function as quality.py's.
_deduplicate_topics(topics, threshold) ==
    TopicLoop(topics, 1, threshold, [seen |-> <<>>, unique |-> <<>>]).unique

\* What one batch adds to all_topics: the topics parsed from the answer, or
\* nothing when the model call raised (except Exception: print).
BatchTopics(response) == IF response.error = "" THEN response.topics ELSE <<>>

\* scan_topics_from_chunks(chunks, client): responses holds, for every batch
\* of chunk samples, the error the model call raised or the topics parsed
\* from its answer.
scan_topics_from_chunks(responses) ==
    _deduplicate_topics(Flatten([b \in 1..Len(responses) |-> BatchTopics(responses[b])]),
                        TopicThreshold)

(***************************************************************************)
(* app.py: one browser session of the page. Streamlit runs the script from *)
(* top to bottom after every event of the user (a file put into or taken   *)
(* out of the uploader, a toggle, a checkbox, a button); a button returns  *)
(* True only in the run that its click started, and only a button that the *)
(* run before rendered enabled can be clicked.                             *)
(*                                                                         *)
(* st.session_state is a record: keys holds the scan keys present, and an  *)
(* absent key's field holds what .get() makes of it ("" for a missing      *)
(* name, FALSE for a missing flag). The topic__<name> keys are a record of *)
(* the names present and the names whose value is True.                    *)
(***************************************************************************)
\* max_words_per_chunk of the app's create_chunks calls
ScanWordLimit == 2000

NoFile == [name |-> "", doc |-> <<>>]

EmptyState ==
    [keys |-> {}, last_pdf_name |-> "", scan_done |-> FALSE, scanned_topics |-> <<>>,
     pdf_chunks |-> <<>>]

NoChecks == [keys |-> {}, on |-> {}]

NoPage == [scan_btn |-> "absent", generate |-> "absent", topics |-> {}]

\* A run that does not read the PDF.
NotExtracted == [raised |-> "", pages |-> <<>>, scanned_page_nums |-> <<>>]

NoKeyMessage == "Please add your OpenAI API key in the sidebar first."

NoTextMessage == "No text could be extracted from this PDF."

\* Reset scan state when a new PDF is uploaded: the four keys are popped and
\* last_pdf_name is set, when the name of the file differs from it.
ResetScanState(state, file) ==
    IF state.last_pdf_name # file.name
    THEN [EmptyState EXCEPT !.keys = {"last_pdf_name"}, !.last_pdf_name = file.name]
    ELSE state

\* Persist in session state
Persist(state, topics, chunk_list) ==
    [state EXCEPT !.keys = @ \cup {"scan_done", "scanned_topics", "pdf_chunks"},
                  !.scan_done = TRUE, !.scanned_topics = topics, !.pdf_chunks = chunk_list]

\* The Scan button: disabled=st.session_state.get("scan_done", False)
ScanButton(topic_on, state) ==
    IF ~topic_on THEN "absent" ELSE IF state.scan_done THEN "disabled" ELSE "enabled"

Names(topics) == [i \in 1..Len(topics) |-> topics[i].name]

\* st.session_state.get(f"topic__{name}", True)
Checked(checks, name) == name \notin checks.keys \/ name \in checks.on

\* "Select all" and "Deselect all": every scanned topic's key is set.
SetAll(checks, names, value) ==
    [keys |-> checks.keys \cup names,
     on   |-> IF value THEN checks.on \cup names ELSE checks.on \ names]

\* st.checkbox(value=st.session_state.get(key, True), key=key) for every
\* scanned topic: a key not yet present is stored with True.
RenderCheckboxes(checks, names) ==
    [keys |-> checks.keys \cup names, on |-> checks.on \cup (names \ checks.keys)]

\* The keys of the checkboxes that a run did not render: Streamlit keeps
\* them or drops them.
Unrendered(checks, shown, keep) ==
    IF keep THEN checks ELSE [keys |-> checks.keys \cap shown, on |-> checks.on \cap shown]

\* selected_topics = [t["name"] for t in scanned if ...get(f"topic__...", True)]
SelectedTopics(scanned, checks) ==
    SelectSeq(Names(scanned), LAMBDA name : Checked(checks, name))

\* Mutant: the Generate button is enabled as soon as the scan is done.
generate_disabled_ScanOnly(topic_on, state, selected) == topic_on /\ ~state.scan_done

\* generate_disabled
generate_disabled(topic_on, state, selected) ==
    topic_on /\ (~state.scan_done \/ selected = <<>>)

\* What a run leaves behind.
RunResult(state, checks, rendered, message, model_calls, gen_calls) ==
    [session_state |-> state, topic_checked |-> checks, page |-> rendered,
     reported |-> message, scan_calls |-> model_calls, generation |-> gen_calls]

\* The generation loop: one call for every chunk.
GenerationCalls(topic_on, chunk_list, selected) ==
    [i \in 1..Len(chunk_list) |->
        IF topic_on
        THEN [fn |-> "generate_cards_for_chunk_with_topics", chunk |-> chunk_list[i],
              topics |-> selected]
        ELSE [fn |-> "generate_cards_for_chunk", chunk |-> chunk_list[i], topics |-> <<>>]]

\* The generation pipeline on freshly extracted pages: ex is what
\* extract_text_from_pdf did with the file, fresh what create_chunks makes
\* of its pages.
GenerateFresh(state, checks, rendered, topic_on, selected, ex, fresh) ==
    IF ex.raised # ""
    THEN RunResult(state, checks, rendered, ex.raised, <<>>, <<>>)
    ELSE IF ex.pages = <<>>
    THEN RunResult(state, checks, rendered, NoTextMessage, <<>>, <<>>)
    ELSE RunResult(state, checks, rendered, "", <<>>,
                   GenerationCalls(topic_on, fresh, selected))

\* if start: the generation pipeline up to its generation calls.
Generate(state, has_key, checks, rendered, topic_on, selected, ex, fresh) ==
    IF ~has_key
    THEN RunResult(state, checks, rendered, NoKeyMessage, <<>>, <<>>)
    ELSE IF topic_on /\ "pdf_chunks" \in state.keys
    THEN RunResult(state, checks, rendered, "", <<>>,
                   GenerationCalls(topic_on, state.pdf_chunks, selected))
    ELSE GenerateFresh(state, checks, rendered, topic_on, selected, ex, fresh)

\* The page once the checkboxes stand: the Generate button, and the
\* generation pipeline if the button was clicked.
AfterSelection(state, has_key, checks, topic_on, shown, click, ex, fresh, model_calls) ==
    LET selected == IF shown = {} THEN <<>> ELSE SelectedTopics(state.scanned_topics, checks)
        rendered == [scan_btn |-> ScanButton(topic_on, state),
                     generate |-> IF generate_disabled(topic_on, state, selected)
                                  THEN "disabled" ELSE "enabled",
                     topics   |-> shown]
    IN  IF click = "generate"
        THEN Generate(state, has_key, checks, rendered, topic_on, selected, ex, fresh)
        ELSE RunResult(state, checks, rendered, "", model_calls, <<>>)

\* The script from the topic selection on.
FromSelection(state, has_key, checks, topic_on, click, keep, ex, fresh, model_calls) ==
    LET shown   == IF topic_on /\ state.scan_done
                   THEN Range(Names(state.scanned_topics)) ELSE {}
        pressed == IF click = "select_all" THEN SetAll(checks, shown, TRUE)
                   ELSE IF click = "deselect_all" THEN SetAll(checks, shown, FALSE)
                   ELSE checks
    IN  AfterSelection(state, has_key,
                       Unrendered(RenderCheckboxes(pressed, shown), shown, keep),
                       topic_on, shown, click, ex, fresh, model_calls)

\* A run that st.stop() or an uncaught exception ends inside the scan phase:
\* nothing below the Scan button is rendered.
StoppedInScan(state, checks, topic_on, keep, message) ==
    RunResult(state, Unrendered(checks, {}, keep),
              [scan_btn |-> ScanButton(topic_on, state), generate |-> "absent", topics |-> {}],
              message, <<>>, <<>>)

\* if scan_btn: from the extraction on. A scan that gets through persists
\* its state and ends in st.rerun(), which runs the script again.
ScanExtracted(state, has_key, checks, topic_on, keep, ex, fresh, responses) ==
    IF ex.raised # ""
    THEN StoppedInScan(state, checks, topic_on, keep, ex.raised)
    ELSE IF ex.pages = <<>>
    THEN StoppedInScan(state, checks, topic_on, keep, NoTextMessage)
    ELSE FromSelection(Persist(state, scan_topics_from_chunks(responses), fresh),
                       has_key, checks, topic_on, "none", keep, ex, fresh, responses)

\* if scan_btn
Scan(state, has_key, checks, topic_on, keep, ex, fresh, responses) ==
    IF ~has_key
    THEN StoppedInScan(state, checks, topic_on, keep, NoKeyMessage)
    ELSE ScanExtracted(state, has_key, checks, topic_on, keep, ex, fresh, responses)

\* One run of the script; ex is what extract_text_from_pdf does with the
\* file if the run comes to call it, and fresh what create_chunks makes of
\* the pages extracted.
ScriptRun(state, file, has_key, checks, topic_on, click, keep, ex, fresh, responses) ==
    IF file = NoFile
    THEN RunResult(state, Unrendered(checks, {}, keep), NoPage, "", <<>>, <<>>)
    ELSE IF click = "scan"
    THEN Scan(ResetScanState(state, file), has_key, checks, topic_on, keep, ex, fresh,
              responses)
    ELSE FromSelection(ResetScanState(state, file), has_key, checks, topic_on, click, keep,
                       ex, fresh, <<>>)

(***************************************************************************)
(* The session's inputs: files of two names, each with a one-page PDF, a   *)
(* two-page PDF with a scanned page, or a PDF without text; model answers  *)
(* that name no topic, one topic or two topics (one of them the topic of   *)
(* the other answer in another case), or that fail with an authentication  *)
(* or a rate-limit error.                                                  *)
(***************************************************************************)
FileNames == {"notes.pdf", "slides.pdf"}

SessionDocs ==
    { <<PdfPage(LongText, FALSE, <<>>)>>,
      <<PdfPage(<<>>, TRUE, GoodScan), PdfPage(LongText, FALSE, <<>>)>>,
      <<PdfPage(<<>>, FALSE, <<>>)>> }

Uploads == {[name |-> name, doc |-> doc] : name \in FileNames, doc \in SessionDocs}

Topic(name) == [name |-> name, description |-> <<>>]

Cells == Topic(<<"C", "e", "l", "l", "s">>)

cells == Topic(<<"c", "e", "l", "l", "s">>)

Genes == Topic(<<"G", "e", "n", "e", "s">>)

ModelErrors == {"AuthenticationError", "RateLimitError"}

BatchResponses ==
    {[error |-> e, topics |-> <<>>] : e \in ModelErrors}
        \cup {[error |-> "", topics |-> ts] :
                ts \in {<<>>, <<cells>>, <<Cells, Genes>>}}

ScanResponses == UNION {[1..n -> BatchResponses] : n \in 1..MaxBatches}

(***************************************************************************)
(* Specifications. Each one runs one component on every input of its       *)
(* bounded input set; the variables of the other components stay idle.     *)
(***************************************************************************)
ChunkIdle == pages = <<>> /\ max_words_per_chunk = 0 /\ chunks = <<>>

DedupIdle ==
    cards = <<>> /\ similarity_threshold = 0 /\ filtered = <<>> /\ refiltered = <<>>

ParseIdle == data = JNull /\ topic_aware = FALSE /\ parsed = <<>>

AppIdle ==
    /\ topic_mode = FALSE /\ selected_topics = <<>> /\ pdf_chunks = <<>>
    /\ all_cards = <<>> /\ chunk_index = 0 /\ calls = <<>> /\ exported = NoExport /\ error = ""

JaccardIdle == jac_a = <<>> /\ jac_b = <<>> /\ jac_out = <<>>

RobustIdle == py_cards = <<>> /\ py_outcome = <<>>

OcrIdle == detections = <<>> /\ lines = <<>> /\ assembled = <<>>

RawIdle ==
    raw_payload = <<>> /\ raw_wrapping = "" /\ raw_flag = FALSE /\ raw_out = <<>>

CleanIdle == page_raw = <<>> /\ page_clean = <<>> /\ ocr_clean = <<>>

ExtractIdle == pdf = <<>> /\ extracted = <<>>

ReaderIdle ==
    /\ _reader = 0
    /\ constructed = 0
    /\ call_pc = <<>>
    /\ call_made = <<>>
    /\ call_log = <<>>

SessionIdle ==
    /\ uploaded_file = NoFile
    /\ topic_toggle = FALSE
    /\ api_key = FALSE
    /\ session_state = EmptyState
    /\ topic_checked = NoChecks
    /\ widgets = NoPage
    /\ reported = ""
    /\ scan_calls = <<>>
    /\ generation = <<>>

InitChunk ==
    /\ pc = "chunk_ready"
    /\ pages \in PageLists
    /\ max_words_per_chunk \in 1..MaxLimit
    /\ chunks = <<>>
    /\ DedupIdle
    /\ ParseIdle
    /\ AppIdle
    /\ JaccardIdle
    /\ RobustIdle
    /\ OcrIdle
    /\ RawIdle
    /\ CleanIdle
    /\ ExtractIdle
    /\ ReaderIdle
    /\ SessionIdle

CreateChunks ==
    /\ pc = "chunk_ready"
    /\ chunks' = create_chunks(pages, max_words_per_chunk)
    /\ pc' = "chunk_done"
    /\ UNCHANGED <<pages, max_words_per_chunk, dedupVars, parseVars, appVars, jaccardVars,
                   robustVars, ocrVars, rawVars, cleanVars, extractVars, readerVars, sessionVars>>

NextChunk == CreateChunks

SpecChunk == InitChunk /\ [][NextChunk]_vars

InitDedup ==
    /\ pc = "dedup_ready"
    /\ cards \in CardLists
    /\ similarity_threshold \in Thresholds
    /\ filtered = <<>>
    /\ refiltered = <<>>
    /\ ChunkIdle
    /\ ParseIdle
    /\ AppIdle
    /\ JaccardIdle
    /\ RobustIdle
    /\ OcrIdle
    /\ RawIdle
    /\ CleanIdle
    /\ ExtractIdle
    /\ ReaderIdle
    /\ SessionIdle

\* filtered = filter_and_deduplicate(cards, similarity_threshold)
Filter ==
    /\ pc = "dedup_ready"
    /\ filtered' = filter_and_deduplicate(cards, similarity_threshold)
    /\ pc' = "dedup_once"
    /\ UNCHANGED <<cards, similarity_threshold, refiltered, chunkVars, parseVars, appVars,
                   jaccardVars, robustVars, ocrVars, rawVars, cleanVars, extractVars,
                   readerVars, sessionVars>>

\* filter_and_deduplicate run on its own output
FilterAgain ==
    /\ pc = "dedup_once"
    /\ refiltered' = filter_and_deduplicate(filtered, similarity_threshold)
    /\ pc' = "dedup_twice"
    /\ UNCHANGED <<cards, similarity_threshold, filtered, chunkVars, parseVars, appVars,
                   jaccardVars, robustVars, ocrVars, rawVars, cleanVars, extractVars,
                   readerVars, sessionVars>>

NextDedup == Filter \/ FilterAgain

SpecDedup == InitDedup /\ [][NextDedup]_vars

\* filter_and_deduplicate on lists of cloze cards alone.
InitCloze ==
    /\ pc = "dedup_ready"
    /\ cards \in ClozeLists
    /\ similarity_threshold \in Thresholds
    /\ filtered = <<>>
    /\ refiltered = <<>>
    /\ ChunkIdle
    /\ ParseIdle
    /\ AppIdle
    /\ JaccardIdle
    /\ RobustIdle
    /\ OcrIdle
    /\ RawIdle
    /\ CleanIdle
    /\ ExtractIdle
    /\ ReaderIdle
    /\ SessionIdle

SpecCloze == InitCloze /\ [][NextDedup]_vars

InitParse ==
    /\ pc = "parse_ready"
    /\ data \in ListData \cup DictData \cup ScalarData
    /\ topic_aware \in BOOLEAN
    /\ parsed = <<>>
    /\ ChunkIdle
    /\ DedupIdle
    /\ AppIdle
    /\ JaccardIdle
    /\ RobustIdle
    /\ OcrIdle
    /\ RawIdle
    /\ CleanIdle
    /\ ExtractIdle
    /\ ReaderIdle
    /\ SessionIdle

\* The part of _parse_cards that follows json.loads.
ParseCards ==
    /\ pc = "parse_ready"
    /\ parsed' = CardsFromData(data, topic_aware)
    /\ pc' = "parse_done"
    /\ UNCHANGED <<data, topic_aware, chunkVars, dedupVars, appVars, jaccardVars, robustVars,
                   ocrVars, rawVars, cleanVars, extractVars, readerVars, sessionVars>>

NextParse == ParseCards

SpecParse == InitParse /\ [][NextParse]_vars

\* The page as rendered with a PDF uploaded and the Generate button enabled:
\* in topic mode a scan has stored its chunks and topics are selected.
InitApp ==
    /\ pc = "app_ready"
    /\ pages \in AppPageLists
    /\ max_words_per_chunk = AppWordLimit
    /\ topic_mode \in BOOLEAN
    /\ IF topic_mode
       THEN /\ pages # <<>>
            /\ selected_topics \in SelectedTopicLists
            /\ pdf_chunks = create_chunks(pages, max_words_per_chunk)
       ELSE /\ selected_topics = <<>>
            /\ pdf_chunks = <<>>
    /\ chunks = <<>>
    /\ all_cards = <<>>
    /\ chunk_index = 0
    /\ calls = <<>>
    /\ filtered = <<>>
    /\ exported = NoExport
    /\ error = ""
    /\ cards = <<>> /\ similarity_threshold = 0 /\ refiltered = <<>>
    /\ ParseIdle
    /\ JaccardIdle
    /\ RobustIdle
    /\ OcrIdle
    /\ RawIdle
    /\ CleanIdle
    /\ ExtractIdle
    /\ ReaderIdle
    /\ SessionIdle

appFrame ==
    <<cards, similarity_threshold, refiltered, parseVars, sessionVars, readerVars,
      extractVars, cleanVars, rawVars, ocrVars, robustVars, jaccardVars, pages,
      max_words_per_chunk, topic_mode, selected_topics, pdf_chunks>>

\* Topic mode: the chunks of the scan are used again.
StartWithScannedChunks ==
    /\ pc = "app_ready"
    /\ topic_mode
    /\ chunks' = pdf_chunks
    /\ chunk_index' = 1
    /\ pc' = "app_generating"
    /\ UNCHANGED <<all_cards, calls, filtered, exported, error, appFrame>>

\* Classic mode: extract_text_from_pdf returned `pages`; without pages the run
\* stops, else the pages are chunked.
StartWithExtraction ==
    /\ pc = "app_ready"
    /\ ~topic_mode
    /\ IF pages = <<>>
       THEN /\ error' = "no_text"
            /\ pc' = "app_stopped"
            /\ UNCHANGED <<chunks, chunk_index>>
       ELSE /\ chunks' = create_chunks(pages, max_words_per_chunk)
            /\ chunk_index' = 1
            /\ pc' = "app_generating"
            /\ UNCHANGED error
    /\ UNCHANGED <<all_cards, calls, filtered, exported, appFrame>>

\* One pass of the generation loop whose call returns the model's reply.
GenerateReturns ==
    /\ pc = "app_generating"
    /\ chunk_index <= Len(chunks)
    /\ \E reply \in ResponseData :
           LET got == CardsFromData(reply, topic_mode)
           IN  /\ all_cards' = all_cards \o got
               /\ calls' = Append(calls, [chunk  |-> chunks[chunk_index],
                                          result |-> "ok",
                                          cards  |-> got])
    /\ chunk_index' = NextChunkIndex(chunk_index, "ok", Len(chunks))
    /\ UNCHANGED <<pc, chunks, filtered, exported, error, appFrame>>

\* One pass of the generation loop whose call raises: the generator returns [].
GenerateFails ==
    /\ pc = "app_generating"
    /\ chunk_index <= Len(chunks)
    /\ \E kind \in FailureKinds :
           /\ all_cards' = all_cards \o <<>>
           /\ calls' = Append(calls, [chunk  |-> chunks[chunk_index],
                                      result |-> kind,
                                      cards  |-> <<>>])
           /\ chunk_index' = NextChunkIndex(chunk_index, kind, Len(chunks))
    /\ UNCHANGED <<pc, chunks, filtered, exported, error, appFrame>>

\* Classic mode after the loop: empty check, quality control, export.
FinishClassic ==
    /\ pc = "app_generating"
    /\ chunk_index > Len(chunks)
    /\ ~topic_mode
    /\ IF all_cards = <<>>
       THEN /\ error' = "no_cards"
            /\ pc' = "app_stopped"
            /\ UNCHANGED <<filtered, exported>>
       ELSE /\ filtered' = filter_and_deduplicate(all_cards, DefaultThreshold)
            /\ exported' = [writer |-> "create_anki_deck",
                            decks  |-> create_anki_deck(filtered', DeckName)]
            /\ pc' = "app_done"
            /\ UNCHANGED error
    /\ UNCHANGED <<chunks, chunk_index, all_cards, calls, appFrame>>

\* Topic mode after the loop: empty check, quality control, grouping by
\* topic, export.
FinishTopic ==
    /\ pc = "app_generating"
    /\ chunk_index > Len(chunks)
    /\ topic_mode
    /\ IF all_cards = <<>>
       THEN /\ error' = "no_cards"
            /\ pc' = "app_stopped"
            /\ UNCHANGED <<filtered, exported>>
       ELSE /\ filtered' = filter_and_deduplicate(all_cards, DefaultThreshold)
            /\ LET topic_decks == TopicDecks(filtered', selected_topics)
               IN  IF topic_decks = <<>>
                   THEN /\ error' = "no_topic_cards"
                        /\ pc' = "app_stopped"
                        /\ UNCHANGED exported
                   ELSE /\ exported' = [writer |-> "create_multi_deck_package",
                                        decks  |-> create_multi_deck_package(topic_decks,
                                                                             DeckName)]
                        /\ pc' = "app_done"
                        /\ UNCHANGED error
    /\ UNCHANGED <<chunks, chunk_index, all_cards, calls, appFrame>>

NextApp ==
    \/ StartWithScannedChunks
    \/ StartWithExtraction
    \/ GenerateReturns
    \/ GenerateFails
    \/ FinishClassic
    \/ FinishTopic

SpecApp == InitApp /\ [][NextApp]_vars

InitJaccard ==
    /\ pc = "jaccard_ready"
    /\ jac_a \in JaccardStrings
    /\ jac_b \in JaccardStrings
    /\ jac_out = <<>>
    /\ ChunkIdle
    /\ DedupIdle
    /\ ParseIdle
    /\ AppIdle
    /\ RobustIdle
    /\ OcrIdle
    /\ RawIdle
    /\ CleanIdle
    /\ ExtractIdle
    /\ ReaderIdle
    /\ SessionIdle

\* _jaccard applied to the pair in both orders and to the first string
\* paired with itself.
ComputeJaccard ==
    /\ pc = "jaccard_ready"
    /\ jac_out' = [ab |-> _jaccard(jac_a, jac_b),
                   ba |-> _jaccard(jac_b, jac_a),
                   aa |-> _jaccard(jac_a, jac_a)]
    /\ pc' = "jaccard_done"
    /\ UNCHANGED <<jac_a, jac_b, chunkVars, dedupVars, parseVars, appVars, robustVars, ocrVars,
                   rawVars, cleanVars, extractVars, readerVars, sessionVars>>

NextJaccard == ComputeJaccard

SpecJaccard == InitJaccard /\ [][NextJaccard]_vars

InitRobust ==
    /\ pc = "robust_ready"
    /\ py_cards \in PyCardLists
    /\ py_outcome = <<>>
    /\ ChunkIdle
    /\ DedupIdle
    /\ ParseIdle
    /\ AppIdle
    /\ JaccardIdle
    /\ OcrIdle
    /\ RawIdle
    /\ CleanIdle
    /\ ExtractIdle
    /\ ReaderIdle
    /\ SessionIdle

\* filter_and_deduplicate(py_cards) with the default threshold
FilterAnyCards ==
    /\ pc = "robust_ready"
    /\ py_outcome' = FilterOutcome(py_cards, DefaultThreshold)
    /\ pc' = "robust_done"
    /\ UNCHANGED <<py_cards, chunkVars, dedupVars, parseVars, appVars, jaccardVars, ocrVars,
                   rawVars, cleanVars, extractVars, readerVars, sessionVars>>

NextRobust == FilterAnyCards

SpecRobust == InitRobust /\ [][NextRobust]_vars

InitOcr ==
    /\ pc = "ocr_ready"
    /\ detections \in DetectionLists
    /\ lines = <<>>
    /\ assembled = <<>>
    /\ ChunkIdle
    /\ DedupIdle
    /\ ParseIdle
    /\ AppIdle
    /\ JaccardIdle
    /\ RobustIdle
    /\ RawIdle
    /\ CleanIdle
    /\ ExtractIdle
    /\ ReaderIdle
    /\ SessionIdle

\* text = _assemble_text(detections)
AssembleText ==
    /\ pc = "ocr_ready"
    /\ lines' = AssembleLines(detections)
    /\ assembled' = _assemble_text(detections)
    /\ pc' = "ocr_done"
    /\ UNCHANGED <<detections, chunkVars, dedupVars, parseVars, appVars, jaccardVars,
                   robustVars, rawVars, cleanVars, extractVars, readerVars, sessionVars>>

NextOcr == AssembleText

SpecOcr == InitOcr /\ [][NextOcr]_vars

InitRaw ==
    /\ pc = "raw_ready"
    /\ raw_payload \in RawPayloads
    /\ raw_wrapping \in Wrappings
    /\ raw_flag \in BOOLEAN
    /\ raw_out = <<>>
    /\ ChunkIdle
    /\ DedupIdle
    /\ ParseIdle
    /\ AppIdle
    /\ JaccardIdle
    /\ RobustIdle
    /\ OcrIdle
    /\ CleanIdle
    /\ ExtractIdle
    /\ ReaderIdle
    /\ SessionIdle

\* _parse_cards(raw, topic_aware) on the wrapped answer and on the payload
\* alone.
ParseRaw ==
    /\ pc = "raw_ready"
    /\ raw_out' = [wrapped |-> ParseOutcome(Wrap(raw_payload, raw_wrapping), raw_flag),
                   bare    |-> ParseOutcome(raw_payload, raw_flag)]
    /\ pc' = "raw_done"
    /\ UNCHANGED <<raw_payload, raw_wrapping, raw_flag, chunkVars, dedupVars, parseVars,
                   appVars, jaccardVars, robustVars, ocrVars, cleanVars, extractVars,
                   readerVars, sessionVars>>

NextRaw == ParseRaw

SpecRaw == InitRaw /\ [][NextRaw]_vars

InitClean ==
    /\ pc = "clean_ready"
    /\ page_raw \in RawTexts
    /\ page_clean = <<>>
    /\ ocr_clean = <<>>
    /\ ChunkIdle
    /\ DedupIdle
    /\ ParseIdle
    /\ AppIdle
    /\ JaccardIdle
    /\ RobustIdle
    /\ OcrIdle
    /\ RawIdle
    /\ ExtractIdle
    /\ ReaderIdle
    /\ SessionIdle

\* text = _clean_text(raw_text) in the extractor, text = _clean_ocr_text(text)
\* in the OCR path, on the same text.
CleanText ==
    /\ pc = "clean_ready"
    /\ page_clean' = _clean_text(page_raw)
    /\ ocr_clean' = _clean_ocr_text(page_raw)
    /\ pc' = "clean_done"
    /\ UNCHANGED <<page_raw, chunkVars, dedupVars, parseVars, appVars, jaccardVars,
                   robustVars, ocrVars, rawVars, extractVars, readerVars, sessionVars>>

NextClean == CleanText

SpecClean == InitClean /\ [][NextClean]_vars

InitExtract ==
    /\ pc = "extract_ready"
    /\ pdf \in Pdfs
    /\ extracted = <<>>
    /\ ChunkIdle
    /\ DedupIdle
    /\ ParseIdle
    /\ AppIdle
    /\ JaccardIdle
    /\ RobustIdle
    /\ OcrIdle
    /\ RawIdle
    /\ CleanIdle
    /\ ReaderIdle
    /\ SessionIdle

\* pages = extract_text_from_pdf(pdf_path); the PDF opens or it does not.
ExtractText ==
    /\ pc = "extract_ready"
    /\ \E opens \in BOOLEAN : extracted' = extract_text_from_pdf(pdf, opens)
    /\ pc' = "extract_done"
    /\ UNCHANGED <<pdf, chunkVars, dedupVars, parseVars, appVars, jaccardVars, robustVars,
                   ocrVars, rawVars, cleanVars, readerVars, sessionVars>>

NextExtract == ExtractText

SpecExtract == InitExtract /\ [][NextExtract]_vars

(***************************************************************************)
(* pipeline/ocr_extractor.py _get_reader under ocr_pages calls of several   *)
(* sessions. Streamlit runs each session's script in a thread of its own,  *)
(* and the interpreter can switch threads between the test of the global,  *)
(* the construction of the reader, the store and the load of the return.   *)
(***************************************************************************)
Sessions == 1..MaxSessions

otherVarsOfReader ==
    <<chunkVars, dedupVars, parseVars, appVars, jaccardVars, robustVars, ocrVars, rawVars,
      cleanVars, extractVars, sessionVars>>

InitReader ==
    /\ pc = "reader"
    /\ _reader = 0
    /\ constructed = 0
    /\ call_pc = [s \in Sessions |-> "idle"]
    /\ call_made = [s \in Sessions |-> 0]
    /\ call_log = <<>>
    /\ ChunkIdle
    /\ DedupIdle
    /\ ParseIdle
    /\ AppIdle
    /\ JaccardIdle
    /\ RobustIdle
    /\ OcrIdle
    /\ RawIdle
    /\ CleanIdle
    /\ ExtractIdle
    /\ SessionIdle

\* ocr_pages(pdf_path, []): if not page_numbers: return []
CallWithoutPages(s) ==
    /\ call_pc[s] = "idle"
    /\ Len(call_log) < MaxOcrCalls
    /\ call_log' = Append(call_log, [session |-> s, pages |-> FALSE, reader |-> 0])
    /\ UNCHANGED <<pc, _reader, constructed, call_pc, call_made, otherVarsOfReader>>

\* ocr_pages(pdf_path, page_numbers) with pages: reader = _get_reader() begins
CallWithPages(s) ==
    /\ call_pc[s] = "idle"
    /\ Len(call_log) + Cardinality({t \in Sessions : call_pc[t] # "idle"}) < MaxOcrCalls
    /\ call_pc' = [call_pc EXCEPT ![s] = "test"]
    /\ UNCHANGED <<pc, _reader, constructed, call_made, call_log, otherVarsOfReader>>

\* if _reader is None
TestReader(s) ==
    /\ call_pc[s] = "test"
    /\ call_pc' = [call_pc EXCEPT ![s] = IF _reader = 0 THEN "construct" ELSE "return"]
    /\ UNCHANGED <<pc, _reader, constructed, call_made, call_log, otherVarsOfReader>>

\* easyocr.Reader(["en"], gpu=False, verbose=False)
ConstructReader(s) ==
    /\ call_pc[s] = "construct"
    /\ constructed' = constructed + 1
    /\ call_made' = [call_made EXCEPT ![s] = constructed + 1]
    /\ call_pc' = [call_pc EXCEPT ![s] = "store"]
    /\ UNCHANGED <<pc, _reader, call_log, otherVarsOfReader>>

\* _reader = <the instance constructed>
StoreReader(s) ==
    /\ call_pc[s] = "store"
    /\ _reader' = call_made[s]
    /\ call_pc' = [call_pc EXCEPT ![s] = "return"]
    /\ UNCHANGED <<pc, constructed, call_made, call_log, otherVarsOfReader>>

\* return _reader, and the rest of ocr_pages with that reader
UseReader(s) ==
    /\ call_pc[s] = "return"
    /\ call_log' = Append(call_log, [session |-> s, pages |-> TRUE, reader |-> _reader])
    /\ call_pc' = [call_pc EXCEPT ![s] = "idle"]
    /\ call_made' = [call_made EXCEPT ![s] = 0]
    /\ UNCHANGED <<pc, _reader, constructed, otherVarsOfReader>>

NextReader ==
    \E s \in Sessions :
        \/ CallWithoutPages(s)
        \/ CallWithPages(s)
        \/ TestReader(s)
        \/ ConstructReader(s)
        \/ StoreReader(s)
        \/ UseReader(s)

SpecReader == InitReader /\ [][NextReader]_vars

(***************************************************************************)
(* app.py under the events of one browser session. Every action is one     *)
(* event and the whole run of the script that it starts.                   *)
(***************************************************************************)
otherVarsOfSession ==
    <<chunkVars, dedupVars, parseVars, appVars, jaccardVars, robustVars, ocrVars, rawVars,
      cleanVars, extractVars, readerVars>>

\* A fresh session: no file, the toggle off (value=False), the key field
\* filled from OPENAI_API_KEY or empty, st.session_state empty.
InitSession ==
    /\ pc = "session"
    /\ uploaded_file = NoFile
    /\ topic_toggle = FALSE
    /\ api_key \in BOOLEAN
    /\ session_state = EmptyState
    /\ topic_checked = NoChecks
    /\ widgets = NoPage
    /\ reported = ""
    /\ scan_calls = <<>>
    /\ generation = <<>>
    /\ ChunkIdle
    /\ DedupIdle
    /\ ParseIdle
    /\ AppIdle
    /\ JaccardIdle
    /\ RobustIdle
    /\ OcrIdle
    /\ RawIdle
    /\ CleanIdle
    /\ ExtractIdle
    /\ ReaderIdle

\* What extract_text_from_pdf can do with the file of a run that reads it:
\* the PDF opens or it does not.
Extractions(file) == {extract_text_from_pdf(file.doc, opens) : opens \in BOOLEAN}

\* The run that follows an event: the widgets' values are those of the
\* browser, extractions holds what reading the PDF can give, the model
\* answers the batches of a scan that comes to call it, and Streamlit keeps
\* or drops the keys of checkboxes that are not rendered, if there are any.
Run(file, topic_on, has_key, checks, click, extractions) ==
    /\ \E ex \in extractions :
          \E fresh \in {create_chunks(ex.pages, ScanWordLimit)},
             keep \in IF checks.keys = {} THEN {TRUE} ELSE BOOLEAN,
             responses \in IF click = "scan" /\ has_key /\ ex.pages # <<>>
                           THEN ScanResponses ELSE {<<>>} :
             \E r \in {ScriptRun(session_state, file, has_key, checks, topic_on, click, keep,
                                 ex, fresh, responses)} :
                 /\ session_state' = r.session_state
                 /\ topic_checked' = r.topic_checked
                 /\ widgets' = r.page
                 /\ reported' = r.reported
                 /\ scan_calls' = r.scan_calls
                 /\ generation' = r.generation
    /\ uploaded_file' = file
    /\ topic_toggle' = topic_on
    /\ api_key' = has_key
    /\ UNCHANGED <<pc, otherVarsOfSession>>

\* A PDF is put into the uploader, in place of the one there if any.
UploadFile ==
    \E file \in Uploads :
        /\ file # uploaded_file
        /\ Run(file, topic_toggle, api_key, topic_checked, "none", {NotExtracted})

\* The PDF is taken out of the uploader; the toggle, no longer rendered,
\* keeps its value or falls back to its default.
RemoveFile ==
    /\ uploaded_file # NoFile
    /\ \E topic_on \in {topic_toggle, FALSE} :
          Run(NoFile, topic_on, api_key, topic_checked, "none", {NotExtracted})

\* topic_mode = st.toggle("Topic-based decks") is switched.
ToggleTopicMode ==
    /\ uploaded_file # NoFile
    /\ Run(uploaded_file, ~topic_toggle, api_key, topic_checked, "none", {NotExtracted})

\* The key field of the sidebar is filled or emptied.
EnterApiKey ==
    \E has_key \in BOOLEAN \ {api_key} :
        Run(uploaded_file, topic_toggle, has_key, topic_checked, "none", {NotExtracted})

\* scan_btn
ClickScan ==
    /\ widgets.scan_btn = "enabled"
    /\ Run(uploaded_file, topic_toggle, api_key, topic_checked, "scan",
           Extractions(uploaded_file))

\* st.button("Select all")
ClickSelectAll ==
    /\ widgets.topics # {}
    /\ Run(uploaded_file, topic_toggle, api_key, topic_checked, "select_all", {NotExtracted})

\* st.button("Deselect all")
ClickDeselectAll ==
    /\ widgets.topics # {}
    /\ Run(uploaded_file, topic_toggle, api_key, topic_checked, "deselect_all", {NotExtracted})

\* The checkbox of one topic is switched.
ToggleTopic ==
    \E name \in widgets.topics :
        Run(uploaded_file, topic_toggle, api_key,
            [topic_checked EXCEPT !.on = IF name \in @ THEN @ \ {name} ELSE @ \cup {name}],
            "none", {NotExtracted})

\* start = st.button(generate_label, disabled=generate_disabled)
ClickGenerate ==
    /\ widgets.generate = "enabled"
    /\ Run(uploaded_file, topic_toggle, api_key, topic_checked, "generate",
           Extractions(uploaded_file))

NextSession ==
    \/ UploadFile
    \/ RemoveFile
    \/ ToggleTopicMode
    \/ EnterApiKey
    \/ ClickScan
    \/ ClickSelectAll
    \/ ClickDeselectAll
    \/ ToggleTopic
    \/ ClickGenerate

SpecSession == InitSession /\ [][NextSession]_vars

(***************************************************************************)
(* Chunker claims.                                                         *)
(***************************************************************************)
\* The word total of a chunk, recomputed from the input pages it names.
PageByNumber(n) == CHOOSE p \in Range(pages) : p.page = n

ChunkWords(c) == SumSeq([i \in 1..Len(c.pages) |-> word_count(PageByNumber(c.pages[i]))])

\* C1: concatenating the chunks' page lists, in chunk order, gives exactly the
\* input page-number sequence (no page dropped, duplicated or reordered).
C1_ChunkCoverage ==
    pc = "chunk_done" =>
        Flatten([k \in 1..Len(chunks) |-> chunks[k].pages])
            = [i \in 1..Len(pages) |-> pages[i].page]

\* C1 witness: several pages were split over more than one chunk.
C1_Witness ==
    /\ pc = "chunk_done"
    /\ Len(pages) >= 3
    /\ Len(chunks) >= 2
    /\ \E k \in 1..Len(chunks) : Len(chunks[k].pages) >= 2

\* C2: a chunk of two or more pages stays within the limit; a chunk over the
\* limit is a single page whose own word count exceeds the limit.
C2_ChunkBound ==
    pc = "chunk_done" =>
        \A k \in 1..Len(chunks) :
            /\ Len(chunks[k].pages) >= 2 => ChunkWords(chunks[k]) <= max_words_per_chunk
            /\ ChunkWords(chunks[k]) > max_words_per_chunk =>
                   /\ Len(chunks[k].pages) = 1
                   /\ word_count(PageByNumber(chunks[k].pages[1])) > max_words_per_chunk

\* C2 witness: an oversized page sits alone between multi-page chunks' pages.
C2_Witness ==
    /\ pc = "chunk_done"
    /\ \E k \in 1..Len(chunks) : ChunkWords(chunks[k]) > max_words_per_chunk
    /\ \E k \in 1..Len(chunks) :
           Len(chunks[k].pages) >= 2 /\ ChunkWords(chunks[k]) = max_words_per_chunk

\* C28: create_chunks never flushes early: the words of a chunk and of the
\* first page of the chunk after it exceed max_words_per_chunk together; no
\* chunk is empty, and there is no chunk iff there is no page.
C28_GreedyPacking ==
    pc = "chunk_done" =>
        /\ \A k \in 1..(Len(chunks) - 1) :
               ChunkWords(chunks[k]) + word_count(PageByNumber(chunks[k + 1].pages[1]))
                   > max_words_per_chunk
        /\ \A k \in 1..Len(chunks) : chunks[k].pages # <<>>
        /\ chunks = <<>> <=> pages = <<>>

\* C28 witness: a chunk of several pages was filled exactly to the limit
\* before the next chunk began.
C28_Witness ==
    /\ pc = "chunk_done"
    /\ Len(chunks) >= 2
    /\ \E k \in 1..(Len(chunks) - 1) :
           /\ Len(chunks[k].pages) >= 2
           /\ ChunkWords(chunks[k]) = max_words_per_chunk

\* The texts of a chunk's member pages, in the chunk's page order.
MemberTexts(c) == [i \in 1..Len(c.pages) |-> PageByNumber(c.pages[i]).text]

\* text is exactly the parts, in order, with sep between neighbours: every
\* part sits unaltered at its offset and only sep lies between two parts.
JoinedBy(text, parts, sep) ==
    LET n      == Len(parts)
        off(i) == SumSeq([k \in 1..(i - 1) |-> Len(parts[k]) + Len(sep)])
    IN  /\ Len(text) = SumSeq([k \in 1..n |-> Len(parts[k])])
                          + (IF n = 0 THEN 0 ELSE (n - 1) * Len(sep))
        /\ \A i \in 1..n : SubSeq(text, off(i) + 1, off(i) + Len(parts[i])) = parts[i]
        /\ \A i \in 1..(n - 1) :
               SubSeq(text, off(i) + Len(parts[i]) + 1, off(i + 1)) = sep

\* C20 as stated: the text of every chunk is the texts of its member pages,
\* in page order, joined by one newline.
C20_NewlineJoined ==
    pc = "chunk_done" =>
        \A k \in 1..Len(chunks) : JoinedBy(chunks[k].text, MemberTexts(chunks[k]), NL)

\* C20: the text of every chunk is the texts of its member pages, in page
\* order, joined by a blank line (two newlines); nothing else is added and no
\* page text is altered or omitted.
C20_BlankLineJoined ==
    pc = "chunk_done" =>
        \A k \in 1..Len(chunks) :
            JoinedBy(chunks[k].text, MemberTexts(chunks[k]), NL \o NL)

\* C20 witness: a chunk of three pages, one of them with a newline of its own.
C20_Witness ==
    /\ pc = "chunk_done"
    /\ \E k \in 1..Len(chunks) :
           /\ Len(chunks[k].pages) >= 3
           /\ \E i \in 1..Len(chunks[k].pages) :
                  Contains(MemberTexts(chunks[k])[i], NL)
           /\ \E i \in 1..Len(chunks[k].pages) : MemberTexts(chunks[k])[i] # NL

(***************************************************************************)
(* Quality / dedup claims.                                                 *)
(***************************************************************************)
IsBasic(c) == "front" \in DOMAIN c

FilterDone == pc \in {"dedup_once", "dedup_twice"}

\* C3: running filter_and_deduplicate on its own output returns that output
\* unchanged, same cards in the same order.
C3_DedupIdempotent == pc = "dedup_twice" => refiltered = filtered

\* C3 witness: the first run dropped and trimmed cards and kept both variants.
C3_Witness ==
    /\ pc = "dedup_twice"
    /\ Len(filtered) < Len(cards)
    /\ \E p \in 1..Len(filtered) : filtered[p] \notin Range(cards)
    /\ \E p, q \in 1..Len(filtered) : IsBasic(filtered[p]) /\ ~IsBasic(filtered[q])

\* What C4 says of one variant: valid are the validated cards, keys their
\* dedup keys and run the result of the variant's dedup loop.
GreedyDedup(valid, keys, run) ==
    /\ Len(run.kept) = Len(run.unique)
    /\ \A p \in 1..Len(run.kept) :
           /\ run.kept[p] \in 1..Len(valid)
           /\ run.unique[p] = valid[run.kept[p]]
    /\ \A p, q \in 1..Len(run.kept) : p < q => run.kept[p] < run.kept[q]
    /\ \A i \in 1..Len(valid) :
           i \in Range(run.kept) <=>
               ~\E j \in Range(run.kept) :
                     j < i /\ AtLeast(_jaccard(keys[i], keys[j]), similarity_threshold)

CardKey(c) == IF IsBasic(c) THEN BasicKey(c) ELSE ClozeKey(c)

\* C4: within one variant the validated cards are walked in order and a card
\* is dropped exactly when its key is at least threshold-similar to the key of
\* a card kept before it; so any two kept cards of one variant are less than
\* threshold-similar.
C4_GreedyDedup ==
    FilterDone =>
        LET bvalid == BasicValid(BasicOf(cards))
            cvalid == ClozeValid(ClozeOf(cards))
            start  == [seen |-> <<>>, unique |-> <<>>, kept |-> <<>>]
            brun   == BasicLoop(bvalid, 1, similarity_threshold, start)
            crun   == ClozeLoop(cvalid, 1, similarity_threshold, start)
        IN  /\ filtered = brun.unique \o crun.unique
            /\ GreedyDedup(bvalid, [i \in 1..Len(bvalid) |-> BasicKey(bvalid[i])], brun)
            /\ GreedyDedup(cvalid, [i \in 1..Len(cvalid) |-> ClozeKey(cvalid[i])], crun)
            /\ \A p, q \in 1..Len(filtered) :
                   (p < q /\ IsBasic(filtered[p]) = IsBasic(filtered[q])) =>
                       ~AtLeast(_jaccard(CardKey(filtered[p]), CardKey(filtered[q])),
                                similarity_threshold)

\* C4 witness: at the default threshold a card 0.75-similar to an earlier kept
\* card was dropped, and a card 0.60-similar to it was kept.
C4_Witness ==
    /\ pc = "dedup_once"
    /\ similarity_threshold = DefaultThreshold
    /\ cards = <<[front |-> F_plain, back |-> B_ok],
                 [front |-> F_gamma, back |-> B_ok],
                 [front |-> F_three, back |-> B_ok]>>
    /\ filtered = <<[front |-> F_plain, back |-> B_ok],
                    [front |-> F_gamma, back |-> B_ok]>>

\* The whitespace-delimited tokens of s: its maximal runs without whitespace.
Tokens(s) ==
    { SubSeq(s, i, j) : <<i, j>> \in
        { ij \in (1..Len(s)) \X (1..Len(s)) :
            /\ ij[1] <= ij[2]
            /\ \A k \in ij[1]..ij[2] : ~IsSpace(s[k])
            /\ ij[1] = 1 \/ IsSpace(s[ij[1] - 1])
            /\ ij[2] = Len(s) \/ IsSpace(s[ij[2] + 1]) } }

\* C14 as stated: jaccard(a, a) is 1.0 for every non-empty string a, a string
\* of only whitespace included.
C14_SelfSimilarityOne ==
    (pc = "jaccard_done" /\ jac_a # <<>>) => jac_out.aa.num = jac_out.aa.den

\* C14: jaccard(a, a) is 1.0 for every string a that holds a token, and 0.0
\* for a string without one (empty or only whitespace).
C14_SelfSimilarity ==
    pc = "jaccard_done" =>
        IF Tokens(jac_a) # {}
        THEN jac_out.aa.num = jac_out.aa.den /\ jac_out.aa.den > 0
        ELSE jac_out.aa.num = 0 /\ jac_out.aa.den > 0

\* C14 witness: a non-empty string of only whitespace was compared with
\* itself.
C14_Witness ==
    /\ pc = "jaccard_done"
    /\ jac_a = SP \o SP
    /\ jac_out.aa = [num |-> 0, den |-> 1]

\* C15: jaccard(a, b) is symmetric, lies in [0, 1], is the number of common
\* tokens over the number of tokens of either string, and is 0.0 when a
\* string has no token (nothing is divided by zero).
C15_JaccardBounds ==
    pc = "jaccard_done" =>
        LET ta == Tokens(jac_a)
            tb == Tokens(jac_b)
            s  == jac_out.ab
        IN  /\ jac_out.ab = jac_out.ba
            /\ s.den > 0
            /\ 0 <= s.num /\ s.num <= s.den
            /\ IF ta = {} \/ tb = {}
               THEN s.num = 0
               ELSE s.num * Cardinality(ta \cup tb) = s.den * Cardinality(ta \cap tb)

\* C15 witness: two strings that share one of two tokens, and a pair of
\* which one string has no token.
C15_Witness ==
    /\ pc = "jaccard_done"
    /\ jac_a = <<"a", " ", "b">>
    /\ jac_b = <<"b">>
    /\ jac_out.ab = [num |-> 1, den |-> 2]

\* The Q/A card and the cloze card that an input card can leave in the output.
TrimmedBasic(c) == [front |-> Strip(Get(c, "front")), back |-> Strip(Get(c, "back"))]

TrimmedCloze(c) == [text |-> Strip(Get(c, "text"))]

\* out holds trimmed copies of input cards of one variant, in input order:
\* its positions map to input positions by a strictly increasing function.
InInputOrder(out, variant) ==
    \E f \in [1..Len(out) -> 1..Len(cards)] :
        /\ \A p, q \in 1..Len(out) : p < q => f[p] < f[q]
        /\ \A p \in 1..Len(out) :
               IF variant = "basic"
               THEN "front" \in DOMAIN cards[f[p]] /\ out[p] = TrimmedBasic(cards[f[p]])
               ELSE "text" \in DOMAIN cards[f[p]] /\ out[p] = TrimmedCloze(cards[f[p]])

\* C16: filter_and_deduplicate returns the kept Q/A cards first and the kept
\* cloze cards after them, and the kept cards of each variant are in the
\* relative order of the input.
C16_VariantOrder ==
    FilterDone =>
        /\ \A p, q \in 1..Len(filtered) :
               (p < q /\ ~IsBasic(filtered[p])) => ~IsBasic(filtered[q])
        /\ InInputOrder(SelectSeq(filtered, IsBasic), "basic")
        /\ InInputOrder(SelectSeq(filtered, LAMBDA c : ~IsBasic(c)), "cloze")

\* C16 witness: a cloze card came first in the input and last in the output,
\* after two Q/A cards kept in their input order.
C16_Witness ==
    /\ pc = "dedup_once"
    /\ Len(cards) = 3
    /\ ~IsBasic(cards[1]) /\ IsBasic(cards[2]) /\ IsBasic(cards[3])
    /\ cards[2] # cards[3]
    /\ filtered = <<TrimmedBasic(cards[2]), TrimmedBasic(cards[3]), TrimmedCloze(cards[1])>>

\* The input cloze cards that pass validation, trimmed, in input order.
ValidCloze == ClozeValid(ClozeOf(cards))

\* s holds a word: a character that is not whitespace.
HasWord(s) == \E k \in 1..Len(s) : ~IsSpace(s[k])

\* The texts of cloze cards with every marker replaced by its term.
Readings(cs) == [k \in 1..Len(cs) |-> ClozeSub(cs[k].text)]

\* valid are the validated cloze cards and kept the cloze cards of the
\* output, with their readings. Of the valid cards that read as valid[i]
\* only the earliest can be in the output, and it is there unless an earlier
\* card of another reading made it a duplicate.
SameReadingCollides(valid, reads, kept, kept_reads, i) ==
    LET first == SetMin({k \in 1..i : reads[k] = reads[i]})
        hits  == {p \in 1..Len(kept) : kept_reads[p] = reads[i]}
    IN  /\ Cardinality(hits) <= 1
        /\ \A p \in hits : kept[p] = valid[first]
        /\ first = 1 => hits # {}

\* Every pair i < j of valid cards that read the same collides; with
\* `worded`, every such pair whose reading holds a word.
PairsCollide(valid, reads, kept, kept_reads, worded) ==
    \A j \in 1..Len(valid) : \A i \in 1..(j - 1) :
        (reads[i] = reads[j] /\ (worded => HasWord(reads[i])))
            => SameReadingCollides(valid, reads, kept, kept_reads, i)

KeptCloze == SelectSeq(filtered, LAMBDA c : ~IsBasic(c))

\* C22 as stated: two cloze cards whose texts are identical once every blank
\* marker is replaced by its term collide, whatever the text: only the
\* earlier one is kept.
C22_SameSentenceCollides ==
    FilterDone =>
        PairsCollide(ValidCloze, Readings(ValidCloze), KeptCloze, Readings(KeptCloze), FALSE)

\* C22: two cloze cards whose texts are identical once every blank marker is
\* replaced by its term, and hold at least one word then, collide: only the
\* earlier one is kept. (Two keys without a word have similarity 0.0.)
C22_SameWordsCollide ==
    FilterDone =>
        PairsCollide(ValidCloze, Readings(ValidCloze), KeptCloze, Readings(KeptCloze), TRUE)

\* C22 witness: the same sentence with another word wrapped and with another
\* marker number came after the first card, and only the first card is kept.
C22_Witness ==
    /\ pc = "dedup_once"
    /\ similarity_threshold = DefaultThreshold
    /\ cards = <<[text |-> T_first], [text |-> T_rewrapped], [text |-> T_renumbered]>>
    /\ filtered = <<[text |-> T_first]>>

\* C29: every card filter_and_deduplicate returns derives from an input card
\* of its own, so the output is never longer than the input, also when a
\* record carries both a front and a text. As stated: such a record is in the
\* Q/A list and in the cloze list, and both loops can keep it.
C29_NoLongerThanInput == FilterDone => Len(filtered) <= Len(cards)

\* C29 failure: one record with front, back and text came back as two cards.
C29_Failure ==
    /\ pc = "dedup_once"
    /\ Len(cards) = 1
    /\ {"front", "text"} \subseteq DOMAIN cards[1]
    /\ Len(filtered) = 2

\* C17: filter_and_deduplicate never raises: whatever fields a card record
\* has, lacks or holds with an unexpected value type, the call returns a list.
C17_NeverRaises == pc = "robust_done" => py_outcome.raised = ""

\* The call C17 fails on: a card whose front is None.
C17_Failure ==
    /\ pc = "robust_done"
    /\ py_cards = <<P_nonefront>>
    /\ py_outcome.raised = "AttributeError"

\* A blank marker {{cN::term}}: "{{c", one or more digits, "::", a non-empty
\* term, "}}".
HasBlankMarker(s) ==
    \E i \in 1..(Len(s) - 2) :
        /\ s[i] = "{" /\ s[i + 1] = "{" /\ s[i + 2] = "c"
        /\ \E j \in (i + 4)..(Len(s) - 1) :
               /\ \A d \in (i + 3)..(j - 1) : s[d] \in Digits
               /\ s[j] = ":" /\ s[j + 1] = ":"
               /\ \E k \in (j + 3)..(Len(s) - 1) : s[k] = "}" /\ s[k + 1] = "}"

\* C5: every returned Q/A card has a trimmed front of at least 12 and a
\* trimmed back of at least 10 characters; every returned cloze card has a
\* trimmed text of at least 20 characters with a well-formed blank marker.
C5_PostValidation ==
    FilterDone =>
        \A p \in 1..Len(filtered) :
            LET c == filtered[p]
            IN  IF IsBasic(c)
                THEN /\ DOMAIN c = {"front", "back"}
                     /\ Strip(c.front) = c.front /\ Len(c.front) >= MinFrontLen
                     /\ Strip(c.back) = c.back /\ Len(c.back) >= MinBackLen
                ELSE /\ DOMAIN c = {"text"}
                     /\ Strip(c.text) = c.text /\ Len(c.text) >= MinClozeLen
                     /\ HasBlankMarker(c.text)

\* C5 witness: cards failing each test were in the input and a card of each
\* variant came out.
C5_Witness ==
    /\ pc = "dedup_once"
    /\ [front |-> F_blank, back |-> B_ok] \in Range(cards)
    /\ [text |-> T_emptyterm] \in Range(cards)
    /\ \E p, q \in 1..Len(filtered) : IsBasic(filtered[p]) /\ ~IsBasic(filtered[q])

(***************************************************************************)
(* Card parser claims.                                                     *)
(***************************************************************************)
\* A parsed card without its topic tag.
Untagged(c) == [k \in DOMAIN c \ {"topic"} |-> c[k]]

HasMarkerSyntax(item) ==
    Contains(Strip(Str(DictGet(item, "text"))), <<"{", "{", "c">>)

FrontBackFilled(item) ==
    /\ DictHas(item, "front") /\ Strip(Str(DictAt(item, "front"))) # <<>>
    /\ DictHas(item, "back") /\ Strip(Str(DictAt(item, "back"))) # <<>>

AsCloze(item) == <<[text |-> Strip(Str(DictGet(item, "text")))]>>

AsQA(item) ==
    <<[front |-> Strip(Str(DictAt(item, "front"))),
       back  |-> Strip(Str(DictAt(item, "back")))]>>

\* The classification as C9 states it: cloze iff cloze-declared (or text
\* without front) and marked; every other item with front and back is Q/A.
ClaimedEntry(item) ==
    IF ~IsDict(item) THEN <<>>
    ELSE IF ClozeBranch(item) /\ HasMarkerSyntax(item) THEN AsCloze(item)
    ELSE IF FrontBackFilled(item) THEN AsQA(item)
    ELSE <<>>

\* The classification with the cloze branch final: an item that is
\* cloze-declared (or has text without front) is a cloze card or nothing.
AmendedEntry(item) ==
    IF ~IsDict(item) THEN <<>>
    ELSE IF ClozeBranch(item)
         THEN IF HasMarkerSyntax(item) THEN AsCloze(item) ELSE <<>>
    ELSE IF FrontBackFilled(item) THEN AsQA(item)
    ELSE <<>>

\* C9 as stated: an item is a cloze card iff it is cloze-declared (or has text
\* and no front) and its text has marker syntax; every other item with front
\* and back non-empty is a Q/A card, a cloze-declared item without a marker
\* included; the rest is discarded.
C9_ClassificationAsClaimed ==
    (pc = "parse_done" /\ IsList(data)) =>
        [p \in 1..Len(parsed) |-> Untagged(parsed[p])]
            = Flatten([i \in 1..Len(data.v) |-> ClaimedEntry(data.v[i])])

\* C9 amended: as stated, except that an item that is cloze-declared (or has
\* text and no front) and whose text has no marker syntax is discarded, also
\* when its front and back are non-empty.
C9_Classification ==
    (pc = "parse_done" /\ IsList(data)) =>
        [p \in 1..Len(parsed) |-> Untagged(parsed[p])]
            = Flatten([i \in 1..Len(data.v) |-> AmendedEntry(data.v[i])])

\* C9 witness: a cloze-declared item without a marker but with front and back
\* was parsed next to a plain Q/A item, and only the latter came out.
C9_Witness ==
    /\ pc = "parse_done"
    /\ data = JList(<<I_typed_nomarker, I_qa>>)
    /\ parsed = <<[front |-> F_plain, back |-> B_ok]>>

\* The list C10 says the parser takes the cards from.
ChosenList(d) ==
    IF IsList(d) THEN d.v
    ELSE IF ~IsDict(d) THEN <<>>
    ELSE IF \E r \in 1..Len(RecognizedKeys) :
                DictHas(d, RecognizedKeys[r]) /\ IsList(DictAt(d, RecognizedKeys[r]))
         THEN LET r == CHOOSE r \in 1..Len(RecognizedKeys) :
                           /\ DictHas(d, RecognizedKeys[r])
                           /\ IsList(DictAt(d, RecognizedKeys[r]))
                           /\ \A q \in 1..(r - 1) :
                                  ~(/\ DictHas(d, RecognizedKeys[q])
                                    /\ IsList(DictAt(d, RecognizedKeys[q])))
              IN  DictAt(d, RecognizedKeys[r]).v
    ELSE IF \E i \in 1..Len(d.v) : IsList(d.v[i][2])
         THEN LET i == CHOOSE i \in 1..Len(d.v) :
                           /\ IsList(d.v[i][2])
                           /\ \A j \in 1..(i - 1) : ~IsList(d.v[j][2])
              IN  d.v[i][2].v
    ELSE <<>>

\* C10: from a wrapper object the cards are taken from the first of cards,
\* flashcards, karten, anki_cards, data, items that holds a list, whatever the
\* order of the object's keys; failing that from the object's first list
\* value; an object without a list gives no cards; a top-level list is used
\* directly.
C10_WrapperKeyOrder ==
    pc = "parse_done" =>
        /\ parsed = _validate(ChosenList(data), topic_aware)
        /\ (IsDict(data) /\ ~\E i \in 1..Len(data.v) : IsList(data.v[i][2])) => parsed = <<>>

\* C10 witness: the object lists an unrecognized and a later-ranked key before
\* "cards", and the cards under "cards" were returned.
C10_Witness ==
    /\ pc = "parse_done"
    /\ IsDict(data) /\ Len(data.v) = 3
    /\ data.v[1] = <<"notes", ListUnder("notes")>>
    /\ data.v[2] = <<"items", ListUnder("items")>>
    /\ data.v[3] = <<"cards", ListUnder("cards")>>
    /\ parsed = <<[front |-> F_plain, back |-> B_ok]>>

\* _parse_cards has returned for the wrapped answer and for the payload.
RawDone == pc = "raw_done"

\* C11: for every raw model output, _parse_cards returns a list and never
\* raises; output that cannot be parsed, or that parses to something other
\* than an object or a list, gives the empty list. As stated: the only
\* exception the function catches is json.JSONDecodeError, and a document
\* nested deeper than the interpreter's recursion limit makes json.loads
\* raise RecursionError, which leaves the function.
C11_NeverRaises ==
    RawDone =>
        /\ raw_out.wrapped.raised = ""
        /\ raw_out.bare.raised = ""
        /\ raw_out.bare.data.t \notin {"dict", "list"} => raw_out.bare.value = <<>>

\* C11 failure: a list of cards nested deeper than LoadsDepthLimit, inside a
\* fence: no list is returned, RecursionError is raised.
C11_Failure ==
    /\ RawDone
    /\ raw_payload = R_deep5
    /\ raw_wrapping = "json_fence"
    /\ raw_out.wrapped.raised = "RecursionError"

\* The answers json.loads can walk: what C11 says holds on them. An answer
\* that is no document, and one that is a number, a string or null, give [].
C11_ShallowNeverRaises ==
    (RawDone /\ raw_payload \in {R_number, R_string, R_null, R_empty, R_truncated,
                                  R_prose, R_two, R_single})
        => raw_out.wrapped = [raised |-> "", data |-> raw_out.wrapped.data, value |-> <<>>]

\* C12: an answer that wraps its payload in fences (a fence, with or without
\* the word json, before it and a fence after it) parses to what the bare
\* payload parses to; the fenced {"cards":[{"front":"Q","back":"A"}]} parses
\* to exactly one Q/A card, front "Q" and back "A".
C12_FenceTransparent ==
    (RawDone /\ raw_wrapping \in FenceWrappings) =>
        /\ raw_out.wrapped.raised = raw_out.bare.raised
        /\ raw_out.wrapped.value = raw_out.bare.value
        /\ raw_payload = R_cards =>
               raw_out.wrapped.value = <<[front |-> <<"Q">>, back |-> <<"A">>]>>

\* C12 witness: the fenced example has been parsed, and it gave a card.
C12_Witness ==
    /\ RawDone
    /\ raw_wrapping = "json_fence"
    /\ raw_payload = R_cards
    /\ Len(raw_out.wrapped.value) = 1

(***************************************************************************)
(* Normalizer claims.                                                      *)
(***************************************************************************)
CleanDone == pc = "clean_done"

\* page_raw holds a word split by a hyphen and a newline before `letter`.
SplitBefore(letter) ==
    \E before \in TextsBefore, after \in TextsAfter :
        page_raw = before \o SplitWord(<<"-", "\n">>, letter) \o after

\* s holds `word` as a run of characters.
HoldsWord(s, word) == \E k \in 0..(Len(s) - Len(word)) : SubSeq(s, k + 1, k + Len(word)) = word

\* C21: a word split as hyphen and newline is rejoined whenever a lowercase
\* letter follows the newline, for every lowercase letter, the extended
\* Latin ones included, and both normalizers do the same. As stated: the
\* character class of both normalizers is [a-zäöüß], so a word split before
\* é, ñ, ç or å stays split.
C21_RejoinsEveryLowercase ==
    CleanDone =>
        /\ ocr_clean = page_clean
        /\ \A letter \in LowercaseSample :
               SplitBefore(letter) => HoldsWord(page_clean, <<"w", "o", "r", letter, "d">>)

\* C21 failure: a word split before an extended Latin letter, and the hyphen
\* and the newline are still there after the normalizer.
C21_Failure ==
    /\ CleanDone
    /\ SplitBefore("é")
    /\ HoldsWord(page_clean, <<"w", "o", "r", "-", "\n", "é", "d">>)

\* What holds of the normalizers: they agree on every text, and a word split
\* before a letter of a-z, ä, ö, ü or ß is rejoined.
C21_RejoinsListedLetters ==
    CleanDone =>
        /\ ocr_clean = page_clean
        /\ \A letter \in LowercaseSample \ ExtendedLower :
               SplitBefore(letter) => HoldsWord(page_clean, <<"w", "o", "r", letter, "d">>)

(***************************************************************************)
(* Extractor claims.                                                       *)
(***************************************************************************)
Extracted == pc = "extract_done" /\ extracted.raised = ""

\* C27: extract_text_from_pdf returns the pages in strictly increasing
\* page-number order, each physical page at most once and either from the
\* text layer or from OCR; a page is queued for OCR only when its cleaned
\* text layer has at most 80 characters and it holds an embedded image; and
\* every returned page has cleaned text of more than 80 characters.
C27_ExtractedPages ==
    Extracted =>
        LET out    == extracted.pages
            queued == Range(extracted.scanned_page_nums)
        IN  /\ \A p, q \in 1..Len(out) : p < q => out[p].page < out[q].page
            /\ \A p \in 1..Len(out) :
                   /\ out[p].page \in 1..Len(pdf)
                   /\ Len(out[p].text) > MinPageChars
                   /\ out[p].text = Strip(out[p].text)
                   /\ IF out[p].page \in queued
                      THEN out[p].text
                               = _clean_ocr_text(_assemble_text(pdf[out[p].page].detections))
                      ELSE out[p].text = _clean_text(pdf[out[p].page].raw_text)
            /\ \A n \in queued :
                   /\ n \in 1..Len(pdf)
                   /\ pdf[n].images
                   /\ Len(_clean_text(pdf[n].raw_text)) <= MinPageChars

\* C27 witness: an OCR page came back between two pages of the text layer,
\* and a page with an image and a long text layer was not queued.
C27_Witness ==
    /\ Extracted
    /\ Len(pdf) = 3
    /\ pdf[1].images /\ 1 \notin Range(extracted.scanned_page_nums)
    /\ extracted.scanned_page_nums = <<2>>
    /\ Len(extracted.pages) = 3

(***************************************************************************)
(* OCR assembler claims.                                                   *)
(***************************************************************************)
OcrDone == pc = "ocr_done"

DetectedItems == {ItemOf(detections[k]) : k \in 1..Len(detections)}

\* C18: the assembled text lists the visual lines top to bottom, separated
\* by newlines, and in each line the detection texts left to right by
\* ascending x, separated by single spaces; the detections Left, Right and
\* Below of the example give "Left Right\nBelow", and no detections give the
\* empty string.
C18_ReadingOrder ==
    OcrDone =>
        /\ detections = <<>> => assembled = <<>>
        /\ Range(detections) = ExampleLayout =>
               assembled = <<"L", "e", "f", "t", " ", "R", "i", "g", "h", "t", "\n", "B", "e", "l", "o", "w">>
        /\ JoinedBy(assembled,
                    [n \in 1..Len(lines) |->
                        Join([k \in 1..Len(lines[n]) |-> lines[n][k].text], SP)], NL)
        /\ \A n \in 1..Len(lines) :
               /\ lines[n] # <<>>
               /\ JoinedBy(Join([k \in 1..Len(lines[n]) |-> lines[n][k].text], SP),
                           [k \in 1..Len(lines[n]) |-> lines[n][k].text], SP)
               /\ \A k, m \in 1..Len(lines[n]) : k < m => lines[n][k].x <= lines[n][m].x
        /\ \A n, o \in 1..Len(lines) :
               n < o => \A k \in 1..Len(lines[n]), m \in 1..Len(lines[o]) :
                            lines[n][k].y <= lines[o][m].y
        /\ Range(Flatten(lines)) = DetectedItems
        /\ Len(Flatten(lines)) = Len(detections)

\* C18 witness: the example's detections, given bottom-up and right to left.
C18_Witness ==
    /\ OcrDone
    /\ detections = <<D_Below, D_Right, D_Left>>
    /\ Len(lines) = 2
    /\ assembled = <<"L", "e", "f", "t", " ", "R", "i", "g", "h", "t", "\n", "B", "e", "l", "o", "w">>

\* A page of two or three columns: the detections fall into two or three
\* disjoint x ranges and every column holds two or more rows.
IsColumnPage ==
    LET xs == {it.x : it \in DetectedItems}
    IN  /\ Cardinality(xs) \in {2, 3}
        /\ \A x \in xs : Cardinality({it \in DetectedItems : it.x = x}) >= 2
        /\ \A d \in Range(detections) : \A x \in xs :
               x > ItemOf(d).x => \A k \in 1..Len(d.bbox) : d.bbox[k][1] < x

\* The texts column by column from the left, each column top to bottom.
ColumnMajor ==
    LET ordered == SortBy(SortBy([k \in 1..Len(detections) |-> ItemOf(detections[k])],
                                 "y"), "x")
    IN  [k \in 1..Len(ordered) |-> ordered[k].text]

\* C19: for a page of two or three columns the assembled text gives the rows
\* of the left column, top to bottom, before the rows of the next column.
C19_ColumnMajor == (OcrDone /\ IsColumnPage) => Split(assembled) = ColumnMajor

\* The page C19 fails on: two columns of two rows each, read row by row.
C19_Failure ==
    /\ OcrDone
    /\ detections = <<D_L1, D_L2, D_R1, D_R2>>
    /\ IsColumnPage
    /\ assembled = <<"L", "1", " ", "R", "1", "\n", "L", "2", " ", "R", "2">>

\* The detections in the order of the y sort, and the line each one is in.
SortedItems == SortBy([k \in 1..Len(detections) |-> ItemOf(detections[k])], "y")

LineOf(item) == CHOOSE n \in 1..Len(lines) : item \in Range(lines[n])

\* C23: in the order of the y sort, a detection is in the line of the one
\* before it iff its y differs from that one's y by less than 0.6 of that
\* one's height (at least 1), and opens the next line otherwise; the test is
\* never made against the first detection of the line.
C23_ChainedLines ==
    (OcrDone /\ detections # <<>>) =>
        /\ LineOf(SortedItems[1]) = 1
        /\ \A k \in 1..(Len(SortedItems) - 1) :
               LET last == SortedItems[k]
                   item == SortedItems[k + 1]
                   near == 10 * Abs(item.y - last.y) < 6 * (IF last.h > 1 THEN last.h ELSE 1)
               IN  LineOf(item) = LineOf(last) + (IF near THEN 0 ELSE 1)

\* C23 witness: a chain of three detections, each within the tolerance of the
\* one before it, is one line although the last is not within the tolerance
\* of the first.
C23_Witness ==
    /\ OcrDone
    /\ \E n \in 1..Len(lines) :
           {ItemOf(D_S1), ItemOf(D_S2), ItemOf(D_S3)} \subseteq Range(lines[n])
    /\ 10 * Abs(ItemOf(D_S3).y - ItemOf(D_S1).y) >= 6 * ItemOf(D_S1).h

(***************************************************************************)
(* OCR reader claims.                                                      *)
(***************************************************************************)
\* C30: the recognizer is a process-wide singleton: over any sequence of
\* ocr_pages calls, calls of different sessions that run at the same time
\* included, at most one recognizer is ever constructed and every call
\* uses that instance; a call without page numbers constructs none. As
\* stated: _get_reader tests and sets the global without a lock, so two
\* calls can both find it None and each construct a recognizer.
C30_SingleReader ==
    pc = "reader" =>
        /\ constructed <= 1
        /\ \A k \in 1..Len(call_log) :
               IF call_log[k].pages THEN call_log[k].reader = 1 ELSE call_log[k].reader = 0
        /\ (\A k \in 1..Len(call_log) : ~call_log[k].pages)
               /\ (\A s \in Sessions : call_pc[s] = "idle") => constructed = 0

\* C30 failure: two sessions' calls have returned, two recognizers were
\* constructed, and the calls used different ones.
C30_Failure ==
    /\ pc = "reader"
    /\ constructed = 2
    /\ \E j, k \in 1..Len(call_log) :
           /\ call_log[j].pages /\ call_log[k].pages
           /\ call_log[j].reader # call_log[k].reader

(***************************************************************************)
(* Generation pipeline claims.                                             *)
(***************************************************************************)
AppFinished == pc \in {"app_done", "app_stopped"}

\* The card's fields as filter_and_deduplicate stores them survive in filtered.
Survives(c) == \E f \in Range(filtered) : Untagged(f) = Untagged(c)

\* The card is a note of the sub-deck base::topic of a multi-deck package.
InSubDeck(c, topic) ==
    /\ exported.writer = "create_multi_deck_package"
    /\ \E d \in Range(exported.decks) :
           /\ d.name = DeckName \o <<":", ":">> \o topic
           /\ \E note \in Range(d.notes) : Untagged(note) = Untagged(c)

\* A collected card whose topic tag selects a topic and that survived.
TaggedSurvivors ==
    {k \in 1..Len(all_cards) :
        BucketOf(all_cards[k], selected_topics).assigned /\ Survives(all_cards[k])}

\* C6: in topic mode every card that the parser tagged with a selected topic
\* (exactly or ignoring case) and that survives filter_and_deduplicate keeps
\* its tag in `filtered` and is exported in the sub-deck base::topic.
C6_TopicTagSurvives ==
    (topic_mode /\ AppFinished) =>
        \A k \in TaggedSurvivors :
            /\ \E f \in Range(filtered) :
                   /\ Untagged(f) = Untagged(all_cards[k])
                   /\ Get(f, "topic") = Get(all_cards[k], "topic")
            /\ InSubDeck(all_cards[k], BucketOf(all_cards[k], selected_topics).topic)

\* The run C6 fails on: a tagged card of a selected topic survived, and the
\* run stopped because no card could be assigned to a topic.
C6_Failure ==
    /\ topic_mode
    /\ pc = "app_stopped"
    /\ error = "no_topic_cards"
    /\ TaggedSurvivors # {}
    /\ exported = NoExport

\* The generation result of C13, as the parser returns it.
DuplicatePair == <<[front |-> F_whatis, back |-> B_ok], [front |-> F_whats, back |-> B_ok]>>

\* C13: a generation result of two Q/A cards with the fronts "What is X?" and
\* "What's X?" and valid backs leaves filter_and_deduplicate at threshold 0.72
\* as exactly one card, the first of the pair.
C13_PairCollapses ==
    (AppFinished /\ all_cards = DuplicatePair) => filtered = <<DuplicatePair[1]>>

\* The run C13 fails on: the pair was all that was collected, and no card
\* came out of filter_and_deduplicate.
C13_Failure ==
    /\ AppFinished
    /\ all_cards = DuplicatePair
    /\ Len(DuplicatePair[1].back) >= MinBackLen
    /\ filtered = <<>>

\* C7: the generation loop submits every chunk once, in chunk order; a failed
\* call contributes no cards and keeps the cards collected before it, the
\* loop goes on to the next chunk, and it ends only after the last chunk.
C7_GenerationLoop ==
    /\ pc = "app_generating" =>
           /\ chunk_index \in 1..(Len(chunks) + 1)
           /\ Len(calls) = chunk_index - 1
           /\ chunk_index <= Len(chunks) => ENABLED (GenerateReturns \/ GenerateFails)
    /\ (AppFinished /\ error # "no_text") => Len(calls) = Len(chunks)
    /\ pc \in {"app_generating", "app_done", "app_stopped"} =>
           /\ Len(calls) <= Len(chunks)
           /\ \A k \in 1..Len(calls) :
                  /\ calls[k].chunk = chunks[k]
                  /\ calls[k].result \in FailureKinds => calls[k].cards = <<>>
           /\ all_cards = Flatten([k \in 1..Len(calls) |-> calls[k].cards])

\* A run of three chunks whose second call fails between two calls that
\* return cards.
C7_Witness ==
    /\ pc = "app_done"
    /\ Len(chunks) = 3
    /\ Len(calls) = 3
    /\ calls[1].result = "ok" /\ calls[1].cards # <<>>
    /\ calls[2].result \in FailureKinds
    /\ calls[3].result = "ok" /\ calls[3].cards # <<>>
    /\ all_cards = calls[1].cards \o calls[3].cards

\* C8: the pipeline never produces an empty deck: without pages, without
\* collected cards or without surviving cards the run stops with a reported
\* error, and no package writer is called with zero cards.
C8_NeverEmptyDeck ==
    /\ exported.writer # "none" =>
           /\ exported.decks # <<>>
           /\ \A d \in Range(exported.decks) : d.notes # <<>>
    /\ (AppFinished /\ (pages = <<>> \/ all_cards = <<>> \/ filtered = <<>>)) =>
           /\ pc = "app_stopped"
           /\ error # ""
           /\ exported = NoExport

\* The run C8 fails on: classic mode, cards were collected, none survived
\* quality control, and create_anki_deck built a deck without notes.
C8_EmptyDeck ==
    /\ ~topic_mode
    /\ pc = "app_done"
    /\ all_cards # <<>>
    /\ filtered = <<>>
    /\ error = ""
    /\ exported = [writer |-> "create_anki_deck",
                   decks  |-> <<[name |-> DeckName, notes |-> <<>>]>>]

(***************************************************************************)
(* Session claims.                                                         *)
(***************************************************************************)
\* The last run made the generation calls of topic mode.
TopicGeneration ==
    generation # <<>> /\ generation[1].fn = "generate_cards_for_chunk_with_topics"

GeneratedChunks == [i \in 1..Len(generation) |-> generation[i].chunk]

\* The chunks that a scan of the PDF now in the uploader caches.
ChunksOfUpload ==
    create_chunks(extract_text_from_pdf(uploaded_file.doc, TRUE).pages, ScanWordLimit)

\* C24: a generation in topic mode never works on chunks cached from a PDF
\* other than the one in the uploader: the chunks it hands to the generator
\* are the chunks of the uploaded PDF.
C24_NoStaleScanState == TopicGeneration => GeneratedChunks = ChunksOfUpload

\* The run C24 fails on: the PDF in the uploader was replaced by another PDF
\* of the same file name, the scan state of the first one stayed, and the
\* topic decks were generated from the first PDF's chunks.
C24_Failure ==
    /\ TopicGeneration
    /\ session_state.last_pdf_name = uploaded_file.name
    /\ GeneratedChunks = session_state.pdf_chunks
    /\ GeneratedChunks # ChunksOfUpload

\* Supporting C24: a run with a file whose name is not last_pdf_name leaves
\* no scan key behind, only the new name.
C24_ClearedOnNewName ==
    [][(uploaded_file' # NoFile /\ uploaded_file'.name # session_state.last_pdf_name)
          => session_state' = [EmptyState EXCEPT !.keys = {"last_pdf_name"},
                                                 !.last_pdf_name = uploaded_file'.name]]_vars

\* The batches of the last run's scan whose model call raised.
FailedCalls == {b \in 1..Len(scan_calls) : scan_calls[b].error \in ModelErrors}

\* C25: after a scan in which a model call failed with an authentication or
\* a rate-limit error, the error is reported, scan_done is unset and the
\* Scan button is enabled.
C25_FailedScanLeavesScanUnset ==
    FailedCalls # {} =>
        /\ reported # ""
        /\ ~session_state.scan_done
        /\ widgets.scan_btn = "enabled"

\* The run C25 fails on: every model call of the scan failed, nothing was
\* reported, scan_done is set with no topic and the Scan button is disabled.
C25_Failure ==
    /\ scan_calls # <<>>
    /\ FailedCalls = 1..Len(scan_calls)
    /\ reported = ""
    /\ "scan_done" \in session_state.keys
    /\ session_state.scan_done
    /\ session_state.scanned_topics = <<>>
    /\ widgets.scan_btn = "disabled"

\* The scanned topics whose checkbox stands checked.
CheckedTopics == SelectedTopics(session_state.scanned_topics, topic_checked)

====
